---------------------------- MODULE Spec2Model ----------------------------
(***************************************************************************)
(* A model of the llm-compressor-graph core: the selection optimizer, the  *)
(* ignore-list formatter and parser, the selection store and the weight    *)
(* map parser.                                                             *)
(*                                                                         *)
(* Strings are sequences of one-character strings, so that every string    *)
(* operation of the source (regular expressions, split, endsWith, slice,   *)
(* template literals) is computed character by character.                  *)
(***************************************************************************)
EXTENDS Integers, Sequences, FiniteSets, TLC

(***************************************************************************)
(* Characters and generic sequence helpers.                                *)
(***************************************************************************)
DOT == "."
BSL == "\\"
DQ  == "\""
SQ  == "'"
NL  == "\n"
SP  == " "

Digits == {"0", "1", "2", "3", "4", "5", "6", "7", "8", "9"}

DigitVal(c) ==
  CASE c = "0" -> 0 [] c = "1" -> 1 [] c = "2" -> 2 [] c = "3" -> 3
    [] c = "4" -> 4 [] c = "5" -> 5 [] c = "6" -> 6 [] c = "7" -> 7
    [] c = "8" -> 8 [] c = "9" -> 9

DigitChar(n) ==
  CASE n = 0 -> "0" [] n = 1 -> "1" [] n = 2 -> "2" [] n = 3 -> "3"
    [] n = 4 -> "4" [] n = 5 -> "5" [] n = 6 -> "6" [] n = 7 -> "7"
    [] n = 8 -> "8" [] n = 9 -> "9"

Range(s) == {s[i] : i \in DOMAIN s}

Slice(s, lo, hi) == IF lo > hi THEN <<>> ELSE SubSeq(s, lo, hi)

RECURSIVE Flatten(_)
Flatten(ss) == IF ss = <<>> THEN <<>> ELSE Head(ss) \o Flatten(Tail(ss))

Includes(s, x) == \E i \in DOMAIN s : s[i] = x

\* indexOf from a position: the first position of x in s at or after from, 0 if none
FirstAt(s, x, from) ==
  LET hits == {i \in from..Len(s) : s[i] = x}
  IN  IF hits = {} THEN 0 ELSE CHOOSE i \in hits : \A j \in hits : i <= j

StartsWith(s, p) == Len(s) >= Len(p) /\ SubSeq(s, 1, Len(p)) = p

EndsWith(s, p) == Len(s) >= Len(p) /\ SubSeq(s, Len(s) - Len(p) + 1, Len(s)) = p

IsDigits(s) == s # <<>> /\ \A i \in DOMAIN s : s[i] \in Digits

\* parseInt(s, 10) of a pure-digit string
RECURSIVE parseInt(_)
parseInt(s) ==
  IF s = <<>> THEN 0 ELSE 10 * parseInt(SubSeq(s, 1, Len(s) - 1)) + DigitVal(s[Len(s)])

\* String(n) of a non-negative integer
RECURSIVE NumToString(_)
NumToString(n) ==
  IF n < 10 THEN <<DigitChar(n)>> ELSE NumToString(n \div 10) \o <<DigitChar(n % 10)>>

\* Array.prototype.join
RECURSIVE Join(_, _)
Join(ss, sep) ==
  IF ss = <<>> THEN <<>>
  ELSE IF Len(ss) = 1 THEN ss[1]
  ELSE ss[1] \o sep \o Join(Tail(ss), sep)

\* indices.sort((a, b) => a - b): stable ascending numeric sort
RECURSIVE InsertNum(_, _)
InsertNum(sorted, n) ==
  IF sorted = <<>> THEN <<n>>
  ELSE IF n < Head(sorted) THEN <<n>> \o sorted
  ELSE <<Head(sorted)>> \o InsertNum(Tail(sorted), n)

RECURSIVE SortNumbers(_)
SortNumbers(s) ==
  IF s = <<>> THEN <<>> ELSE InsertNum(SortNumbers(SubSeq(s, 1, Len(s) - 1)), s[Len(s)])


\* String.prototype.split(sep) for a one-character separator
RECURSIVE Split(_, _)
Split(s, sep) ==
  LET at == FirstAt(s, sep, 1)
  IN  IF at = 0 THEN <<s>>
      ELSE <<Slice(s, 1, at - 1)>> \o Split(Slice(s, at + 1, Len(s)), sep)

(***************************************************************************)
(* JavaScript RegExp, for the pattern language the program emits and a     *)
(* user can type over the same characters: literal characters, "\" escapes *)
(* ("\d" a decimal digit, any other escaped character itself), "." (any    *)
(* character but a line break), groups "(...)", alternation "|" and the    *)
(* quantifiers "+" and "*".  A pattern is a sequence of characters.        *)
(***************************************************************************)
Quantifiers == {"+", "*"}

\* new RegExp(p) throws a SyntaxError exactly when this is FALSE: a trailing
\* "\", an unbalanced parenthesis, or a quantifier with nothing to repeat.
RECURSIVE RegexScan(_, _, _, _)
RegexScan(p, i, depth, canRepeat) ==
  IF i > Len(p) THEN depth = 0
  ELSE IF p[i] = BSL THEN i < Len(p) /\ RegexScan(p, i + 2, depth, TRUE)
  ELSE IF p[i] = "(" THEN RegexScan(p, i + 1, depth + 1, FALSE)
  ELSE IF p[i] = ")" THEN depth > 0 /\ RegexScan(p, i + 1, depth - 1, TRUE)
  ELSE IF p[i] = "|" THEN RegexScan(p, i + 1, depth, FALSE)
  ELSE IF p[i] \in Quantifiers THEN canRepeat /\ RegexScan(p, i + 1, depth, FALSE)
  ELSE RegexScan(p, i + 1, depth, TRUE)

RegexCompiles(p) == RegexScan(p, 1, 0, FALSE)

\* the position of the ")" closing the group opened before position i
RECURSIVE CloseParen(_, _, _)
CloseParen(p, i, depth) ==
  IF i > Len(p) THEN 0
  ELSE IF p[i] = BSL THEN CloseParen(p, i + 2, depth)
  ELSE IF p[i] = "(" THEN CloseParen(p, i + 1, depth + 1)
  ELSE IF p[i] = ")" THEN (IF depth = 0 THEN i ELSE CloseParen(p, i + 1, depth - 1))
  ELSE CloseParen(p, i + 1, depth)

\* the last position of the atom that starts at position i
AtomLast(p, i) ==
  IF p[i] = BSL THEN i + 1
  ELSE IF p[i] = "(" THEN CloseParen(p, i + 1, 0)
  ELSE i

\* the positions of the "|" of p[lo..hi] that lie in no group
RECURSIVE TopBars(_, _, _, _)
TopBars(p, i, hi, depth) ==
  IF i > hi THEN <<>>
  ELSE IF p[i] = BSL THEN TopBars(p, i + 2, hi, depth)
  ELSE IF p[i] = "(" THEN TopBars(p, i + 1, hi, depth + 1)
  ELSE IF p[i] = ")" THEN TopBars(p, i + 1, hi, depth - 1)
  ELSE IF p[i] = "|" /\ depth = 0 THEN <<i>> \o TopBars(p, i + 1, hi, depth)
  ELSE TopBars(p, i + 1, hi, depth)

\* whether the one-character atom at position i matches character c
CharMatches(p, i, c) ==
  IF p[i] = BSL THEN (IF p[i + 1] = "d" THEN c \in Digits ELSE c = p[i + 1])
  ELSE IF p[i] = DOT THEN c # NL
  ELSE c = p[i]

\* XxxEnds(p, lo, hi, s, starts): the positions of s at which a match of
\* p[lo..hi] that starts at a position of starts can end (backtracking search
\* finds a match exactly when one exists).
RECURSIVE AltEnds(_, _, _, _, _)
RECURSIVE ConcatEnds(_, _, _, _, _)
RECURSIVE AtomEnds(_, _, _, _, _)
RECURSIVE RepeatEnds(_, _, _, _, _)

AtomEnds(p, lo, hi, s, starts) ==
  IF p[lo] = "(" THEN AltEnds(p, lo + 1, hi - 1, s, starts)
  ELSE {i + 1 : i \in {j \in starts : j <= Len(s) /\ CharMatches(p, lo, s[j])}}

RepeatEnds(p, lo, hi, s, acc) ==
  LET more == AtomEnds(p, lo, hi, s, acc)
  IN  IF more \subseteq acc THEN acc ELSE RepeatEnds(p, lo, hi, s, acc \cup more)

ConcatEnds(p, lo, hi, s, starts) ==
  IF lo > hi \/ starts = {} THEN starts
  ELSE LET last  == AtomLast(p, lo)
           quant == IF last < hi /\ p[last + 1] \in Quantifiers THEN p[last + 1] ELSE ""
           once  == AtomEnds(p, lo, last, s, starts)
           ends  == IF quant = "+" THEN RepeatEnds(p, lo, last, s, once)
                    ELSE IF quant = "*" THEN RepeatEnds(p, lo, last, s, starts \cup once)
                    ELSE once
           next  == IF quant = "" THEN last + 1 ELSE last + 2
       IN  ConcatEnds(p, next, hi, s, ends)

AltEnds(p, lo, hi, s, starts) ==
  LET bars  == TopBars(p, lo, hi, 0)
      n     == Len(bars)
      from(k) == IF k = 1 THEN lo ELSE bars[k - 1] + 1
      to(k)   == IF k = n + 1 THEN hi ELSE bars[k] - 1
  IN  UNION {ConcatEnds(p, from(k), to(k), s, starts) : k \in 1..(n + 1)}

\* new RegExp(p).test(s): the pattern is unanchored, a match may start and end
\* anywhere in s
RegexTest(p, s) == AltEnds(p, 1, Len(p), s, 1..(Len(s) + 1)) # {}

\* str.replace(/[.*+?^${}()|[\]\\]/g, '\\$&')
RegexMeta == {".", "*", "+", "?", "^", "$", "{", "}", "(", ")", "|", "[", "]", BSL}

escapeRegex(str) == Flatten([i \in DOMAIN str |-> IF str[i] \in RegexMeta THEN <<BSL, str[i]>> ELSE <<str[i]>>])

(***************************************************************************)
(* The selection optimizer (regexOptimizer).                               *)
(***************************************************************************)
\* The "{{INDEX}}" of a template string, kept as one element: the modelled
\* alphabet has no "{", so a template is read back unambiguously.
INDEX == "{{INDEX}}"

NoMatch == [matched |-> FALSE]

\* The places where /^(.+\.)(\d+)(\..+)$/ can put its second group: i is the
\* position of the "." that ends group 1 (group 1 holds at least one more
\* character), j the last digit of group 2, followed by "." and one character
\* or more.
IndexSpans(path) ==
  IF NL \in Range(path) THEN {}
  ELSE UNION {{<<i, j>> : j \in {n \in (i + 1)..(Len(path) - 2) :
                                   IsDigits(SubSeq(path, i + 1, n)) /\ path[n + 1] = DOT}} :
                i \in {m \in 2..Len(path) : path[m] = DOT}}

\* a lazy first group: the index is the first possible segment, not the last
TemplateMatch_FirstIndex(path) ==
  LET spans == IndexSpans(path)
  IN  IF spans = {} THEN NoMatch
      ELSE LET sp == CHOOSE x \in spans : \A y \in spans : x[1] <= y[1]
           IN  [matched |-> TRUE,
                g1 |-> SubSeq(path, 1, sp[1]),
                g2 |-> SubSeq(path, sp[1] + 1, sp[2]),
                g3 |-> SubSeq(path, sp[2] + 1, Len(path))]

\* path.match(/^(.+\.)(\d+)(\..+)$/): group 1 is greedy, so it ends at the last
\* possible place
TemplateMatch(path) ==
  LET spans == IndexSpans(path)
  IN  IF spans = {} THEN NoMatch
      ELSE LET sp == CHOOSE x \in spans : \A y \in spans : y[1] <= x[1]
           IN  [matched |-> TRUE,
                g1 |-> SubSeq(path, 1, sp[1]),
                g2 |-> SubSeq(path, sp[1] + 1, sp[2]),
                g3 |-> SubSeq(path, sp[2] + 1, Len(path))]

toTemplate(path) ==
  LET match == TemplateMatch(path)
  IN  IF ~match.matched THEN NoMatch
      ELSE [matched |-> TRUE,
            template |-> match.g1 \o <<INDEX>> \o match.g3,
            index |-> parseInt(match.g2)]

\* lines 34-52: the loop over selectedPaths, one step; acc holds the template
\* groups in Map insertion order and the non-templated paths
GroupStep(acc, path) ==
  LET parsed == toTemplate(path)
  IN  IF ~parsed.matched THEN [acc EXCEPT !.nonTemplated = Append(@, path)]
      ELSE IF \E k \in DOMAIN acc.groups : acc.groups[k].template = parsed.template
        THEN LET k == CHOOSE k \in DOMAIN acc.groups : acc.groups[k].template = parsed.template
             IN  [acc EXCEPT !.groups[k].indices = Append(@, parsed.index)]
        ELSE LET match == TemplateMatch(path)
             IN  [acc EXCEPT !.groups = Append(@, [template |-> parsed.template,
                                                   prefix |-> match.g1,
                                                   suffix |-> match.g3,
                                                   indices |-> <<parsed.index>>])]

RECURSIVE GroupPaths(_)
GroupPaths(selected) ==
  IF selected = <<>> THEN [groups |-> <<>>, nonTemplated |-> <<>>]
  ELSE GroupStep(GroupPaths(SubSeq(selected, 1, Len(selected) - 1)), selected[Len(selected)])

\* lines 54-61: allTemplateCount.get(template) ?? 0
TotalForTemplate(template, all) ==
  Cardinality({i \in DOMAIN all :
                 LET parsed == toTemplate(all[i])
                 IN  parsed.matched /\ parsed.template = template})

\* the prefix and the suffix put in the pattern unescaped
WildcardRule_Unescaped(group) ==
  <<"r", "e", ":">> \o group.prefix \o <<BSL, "d", "+">> \o group.suffix

\* line 73
WildcardRule(group) ==
  <<"r", "e", ":">> \o escapeRegex(group.prefix) \o <<BSL, "d", "+">> \o escapeRegex(group.suffix)

\* lines 76-78
LiteralRules(group, sorted) ==
  [k \in DOMAIN sorted |-> group.prefix \o NumToString(sorted[k]) \o group.suffix]

\* lines 88-91 and 93-96 (the two branches build the same string)
AlternationRule(group, sorted) ==
  LET idxPattern == Join([k \in DOMAIN sorted |-> NumToString(sorted[k])], <<"|">>)
  IN  <<"r", "e", ":">> \o escapeRegex(group.prefix) \o <<"(">> \o idxPattern \o <<")">>
        \o escapeRegex(group.suffix)

\* lines 82-84
IsContiguous(sorted) == \A i \in DOMAIN sorted : i = 1 \/ sorted[i] = sorted[i - 1] + 1

FewIndices == 3

\* the few-indices test made before the all-selected test
GroupRules_FewFirst(group, all) ==
  LET totalForTemplate == TotalForTemplate(group.template, all)
      sorted == SortNumbers(group.indices)
  IN  IF Len(sorted) <= FewIndices THEN LiteralRules(group, sorted)
      ELSE IF Len(sorted) = totalForTemplate THEN <<WildcardRule(group)>>
      ELSE <<AlternationRule(group, sorted)>>

\* a range pattern for a contiguous run of indices
GroupRules_Range(group, all) ==
  LET totalForTemplate == TotalForTemplate(group.template, all)
      sorted == SortNumbers(group.indices)
  IN  IF Len(sorted) = totalForTemplate THEN <<WildcardRule(group)>>
      ELSE IF Len(sorted) <= FewIndices THEN LiteralRules(group, sorted)
      ELSE IF IsContiguous(sorted) /\ Len(sorted) > FewIndices
        THEN <<<<"r", "e", ":">> \o escapeRegex(group.prefix)
                 \o <<"(">> \o NumToString(sorted[1]) \o <<"-">> \o NumToString(sorted[Len(sorted)]) \o <<")">>
                 \o escapeRegex(group.suffix)>>
      ELSE <<AlternationRule(group, sorted)>>

\* a partly selected group listed explicitly and, besides, covered by a rule
GroupRules_ListedAndCovered(group, all) ==
  LET totalForTemplate == TotalForTemplate(group.template, all)
      sorted == SortNumbers(group.indices)
  IN  IF Len(sorted) = totalForTemplate THEN <<WildcardRule(group)>>
      ELSE LiteralRules(group, sorted) \o <<AlternationRule(group, sorted)>>

\* lines 65-99: the items one template group contributes
GroupRules(group, all) ==
  LET totalForTemplate == TotalForTemplate(group.template, all)
      sorted == SortNumbers(group.indices)
  IN  IF Len(sorted) = totalForTemplate THEN <<WildcardRule(group)>>
      ELSE IF Len(sorted) <= FewIndices THEN LiteralRules(group, sorted)
      ELSE IF IsContiguous(sorted) /\ Len(sorted) > FewIndices THEN <<AlternationRule(group, sorted)>>
      ELSE <<AlternationRule(group, sorted)>>

\* optimizeSelection(selectedPaths, allSelectablePaths).optimized
optimizeSelection(selected, all) ==
  IF Len(selected) = 0 THEN <<>>
  ELSE LET grouped == GroupPaths(selected)
       IN  grouped.nonTemplated
             \o Flatten([k \in DOMAIN grouped.groups |-> GroupRules(grouped.groups[k], all)])

(***************************************************************************)
(* The ignore-list formatter and parser (formatOutput).                    *)
(***************************************************************************)
\* formatStringList
formatStringList(items) ==
  IF Len(items) = 0 THEN <<"[", "]">>
  ELSE <<"[", NL>>
         \o Join([k \in DOMAIN items |-> <<SP, SP, SP, SP, DQ>> \o items[k] \o <<DQ, ",">>], <<NL>>)
         \o <<NL, "]">>

formatIgnoreList(items) == <<"i", "g", "n", "o", "r", "e", "=">> \o formatStringList(items)

\* text.match(/\[([^\]]*)\]/s): the first "[" that a "]" follows, up to the
\* first "]" after it
BracketInner(text) ==
  LET open == FirstAt(text, "[", 1)
      close == IF open = 0 THEN 0 ELSE FirstAt(text, "]", open + 1)
  IN  IF open = 0 \/ close = 0 THEN NoMatch
      ELSE [matched |-> TRUE, inner |-> Slice(text, open + 1, close - 1)]

IsQuote(c) == c = DQ \/ c = SQ

\* the position of the first quote of inner at or after from, 0 if none
NextQuote(inner, from) ==
  LET hits == {i \in from..Len(inner) : IsQuote(inner[i])}
  IN  IF hits = {} THEN 0 ELSE CHOOSE i \in hits : \A j \in hits : i <= j

\* the loop of re.exec(inner) for /["']([^"']+)["']/g, from position from
RECURSIVE QuotedItems(_, _)
QuotedItems(inner, from) ==
  LET open == NextQuote(inner, from)
      close == IF open = 0 THEN 0 ELSE NextQuote(inner, open + 1)
  IN  IF open = 0 \/ close = 0 THEN <<>>
      ELSE IF close = open + 1 THEN QuotedItems(inner, open + 1)
      ELSE <<SubSeq(inner, open + 1, close - 1)>> \o QuotedItems(inner, close + 1)

RePrefix == <<"r", "e", ":">>

\* a literal added without looking it up in the universe
ResolveItem_Unchecked(item, all) ==
  IF StartsWith(item, RePrefix)
    THEN LET pattern == Slice(item, 4, Len(item))
         IN  IF RegexCompiles(pattern)
               THEN SelectSeq(all, LAMBDA p : RegexTest(pattern, p))
               ELSE <<>>
    ELSE <<item>>

\* lines 26-40: the universe paths one item adds, in universe order
ResolveItem(item, all) ==
  IF StartsWith(item, RePrefix)
    THEN LET pattern == Slice(item, 4, Len(item))
         IN  IF RegexCompiles(pattern)
               THEN SelectSeq(all, LAMBDA p : RegexTest(pattern, p))
               ELSE <<>>
    ELSE IF Includes(all, item) THEN <<item>> ELSE <<>>

\* result.add over a list: a JavaScript Set keeps insertion order
RECURSIVE AddAll(_, _)
AddAll(result, paths) ==
  IF paths = <<>> THEN result
  ELSE AddAll(IF Includes(result, Head(paths)) THEN result ELSE Append(result, Head(paths)),
              Tail(paths))

\* one try/catch around the whole loop: an invalid pattern ends the resolution
RECURSIVE ResolveItems_AbortOnInvalid(_, _, _)
ResolveItems_AbortOnInvalid(items, all, result) ==
  IF items = <<>> THEN result
  ELSE IF StartsWith(Head(items), RePrefix) /\ ~RegexCompiles(Slice(Head(items), 4, Len(Head(items))))
    THEN result
  ELSE ResolveItems_AbortOnInvalid(Tail(items), all, AddAll(result, ResolveItem(Head(items), all)))

RECURSIVE ResolveItems(_, _, _)
ResolveItems(items, all, result) ==
  IF items = <<>> THEN result
  ELSE ResolveItems(Tail(items), all, AddAll(result, ResolveItem(Head(items), all)))

parseIgnoreItems(text, all) ==
  LET bracketMatch == BracketInner(text)
  IN  IF ~bracketMatch.matched THEN <<>>
      ELSE ResolveItems(QuotedItems(bracketMatch.inner, 1), all, <<>>)

(***************************************************************************)
(* The weight map parser (weightMapParser): strings.                       *)
(***************************************************************************)
UpperCase == <<"A", "B", "C", "D", "E", "F", "G", "H", "I", "J", "K", "L", "M", "N", "O", "P", "Q", "R", "S", "T", "U", "V", "W", "X", "Y", "Z">>

LowerCase == <<"a", "b", "c", "d", "e", "f", "g", "h", "i", "j", "k", "l", "m", "n", "o", "p", "q", "r", "s", "t", "u", "v", "w", "x", "y", "z">>

\* String.prototype.toLowerCase, on ASCII
toLowerCase(s) ==
  [i \in DOMAIN s |->
     IF \E k \in DOMAIN UpperCase : UpperCase[k] = s[i]
       THEN LowerCase[CHOOSE k \in DOMAIN UpperCase : UpperCase[k] = s[i]]
       ELSE s[i]]

\* String.prototype.includes
Contains(s, sub) == \E i \in 1..(Len(s) - Len(sub) + 1) : SubSeq(s, i, i + Len(sub) - 1) = sub

\* the modelled characters in the order of their UTF-16 code units
CodeOrder == <<".", "0", "1", "2", "3", "4", "5", "6", "7", "8", "9", "A", "B", "C", "D", "E", "F", "G", "H", "I", "J", "K", "L", "M", "N", "O", "P", "Q", "R", "S", "T", "U", "V", "W", "X", "Y", "Z", "_", "a", "b", "c", "d", "e", "f", "g", "h", "i", "j", "k", "l", "m", "n", "o", "p", "q", "r", "s", "t", "u", "v", "w", "x", "y", "z">>

CharCode(c) == CHOOSE k \in DOMAIN CodeOrder : CodeOrder[k] = c

\* a < b by UTF-16 code units, the order of Array.prototype.sort()
RECURSIVE StrLess(_, _)
StrLess(a, b) ==
  IF b = <<>> THEN FALSE
  ELSE IF a = <<>> THEN TRUE
  ELSE IF Head(a) = Head(b) THEN StrLess(Tail(a), Tail(b))
  ELSE CharCode(Head(a)) < CharCode(Head(b))

RECURSIVE InsertStr(_, _)
InsertStr(sorted, x) ==
  IF sorted = <<>> THEN <<x>>
  ELSE IF StrLess(x, Head(sorted)) THEN <<x>> \o sorted
  ELSE <<Head(sorted)>> \o InsertStr(Tail(sorted), x)

RECURSIVE SortStrings(_)
SortStrings(s) ==
  IF s = <<>> THEN <<>> ELSE InsertStr(SortStrings(SubSeq(s, 1, Len(s) - 1)), s[Len(s)])

\* a stable sort of records by their field key, ascending
\* an unstable sort: a record is put before the records of equal key
RECURSIVE InsertByKey_BeforeEqual(_, _)
InsertByKey_BeforeEqual(sorted, x) ==
  IF sorted = <<>> THEN <<x>>
  ELSE IF x.key <= Head(sorted).key THEN <<x>> \o sorted
  ELSE <<Head(sorted)>> \o InsertByKey_BeforeEqual(Tail(sorted), x)

RECURSIVE InsertByKey(_, _)
InsertByKey(sorted, x) ==
  IF sorted = <<>> THEN <<x>>
  ELSE IF x.key < Head(sorted).key THEN <<x>> \o sorted
  ELSE <<Head(sorted)>> \o InsertByKey(Tail(sorted), x)

RECURSIVE SortByKey(_)
SortByKey(s) ==
  IF s = <<>> THEN <<>> ELSE InsertByKey(SortByKey(SubSeq(s, 1, Len(s) - 1)), s[Len(s)])

WEIGHT_SUFFIXES ==
  << <<".","w","e","i","g","h","t">>,
     <<".","b","i","a","s">>,
     <<".","s","c","a","l","e","s">>,
     <<".","z","e","r","o","_","p","o","i","n","t">>,
     <<".","w","e","i","g","h","t","_","s","c","a","l","e">> >>

\* the loop started again on what is left, until no suffix is found
RECURSIVE StripFrom_UntilNone(_, _)
StripFrom_UntilNone(key, k) ==
  IF k > Len(WEIGHT_SUFFIXES) THEN key
  ELSE IF EndsWith(key, WEIGHT_SUFFIXES[k])
    THEN StripFrom_UntilNone(SubSeq(key, 1, Len(key) - Len(WEIGHT_SUFFIXES[k])), 1)
  ELSE StripFrom_UntilNone(key, k + 1)

\* the suffix-stripping loop, from suffix number k on
RECURSIVE StripFrom(_, _)
StripFrom(key, k) ==
  IF k > Len(WEIGHT_SUFFIXES) THEN key
  ELSE IF EndsWith(key, WEIGHT_SUFFIXES[k]) THEN SubSeq(key, 1, Len(key) - Len(WEIGHT_SUFFIXES[k]))
  ELSE StripFrom(key, k + 1)

stripWeightSuffix(key) == StripFrom(key, 1)

\* the attention markers looked at before the norm markers
classifySegment_AttentionFirst(segment, fullPath) ==
  LET s == toLowerCase(segment)
      fp == toLowerCase(fullPath)
  IN  IF Contains(s, <<"e","m","b","e","d">>) \/ s \in {<<"w","t","e">>, <<"w","p","e">>} THEN "embedding"
      ELSE IF s \in {<<"l","m","_","h","e","a","d">>, <<"s","c","o","r","e">>, <<"c","l","a","s","s","i","f","i","e","r">>} THEN "head"
      ELSE IF /\ (\/ Contains(s, <<"s","e","l","f","_","a","t","t","n">>) \/ Contains(s, <<"a","t","t","e","n","t","i","o","n">>) \/ Contains(s, <<"a","t","t","n">>)
                  \/ s \in {<<"q","_","p","r","o","j">>, <<"k","_","p","r","o","j">>, <<"v","_","p","r","o","j">>, <<"o","_","p","r","o","j">>, <<"q","k","v","_","p","r","o","j">>, <<"q","u","e","r","y">>, <<"k","e","y">>, <<"v","a","l","u","e">>})
              /\ (\/ Contains(fp, <<"a","t","t","n">>) \/ Contains(fp, <<"a","t","t","e","n","t","i","o","n">>) \/ Contains(fp, <<"s","e","l","f","_","a","t","t","n">>)
                  \/ s \in {<<"q","_","p","r","o","j">>, <<"k","_","p","r","o","j">>, <<"v","_","p","r","o","j">>, <<"o","_","p","r","o","j">>, <<"q","k","v","_","p","r","o","j">>, <<"q","u","e","r","y">>, <<"k","e","y">>, <<"v","a","l","u","e">>}) THEN "attention"
      ELSE IF \/ Contains(s, <<"n","o","r","m">>) \/ Contains(s, <<"l","a","y","e","r","n","o","r","m">>)
              \/ s \in {<<"l","n","_","1">>, <<"l","n","_","2">>, <<"l","n","_","f">>, <<"f","i","n","a","l","_","l","a","y","e","r","_","n","o","r","m">>, <<"i","n","p","u","t","_","l","a","y","e","r","n","o","r","m">>, <<"p","o","s","t","_","a","t","t","e","n","t","i","o","n","_","l","a","y","e","r","n","o","r","m">>, <<"l","a","y","e","r","_","n","o","r","m","1">>, <<"l","a","y","e","r","_","n","o","r","m","2">>} THEN "norm"
      ELSE IF /\ (\/ Contains(s, <<"m","l","p">>)
                  \/ s \in {<<"g","a","t","e","_","p","r","o","j">>, <<"u","p","_","p","r","o","j">>, <<"d","o","w","n","_","p","r","o","j">>, <<"f","c","1">>, <<"f","c","2">>, <<"c","_","f","c">>, <<"c","_","p","r","o","j">>, <<"g","a","t","e","_","u","p","_","p","r","o","j">>, <<"d","e","n","s","e","_","h","_","t","o","_","4","h">>, <<"d","e","n","s","e","_","4","h","_","t","o","_","h">>})
              /\ (\/ Contains(fp, <<"m","l","p">>)
                  \/ s \in {<<"g","a","t","e","_","p","r","o","j">>, <<"u","p","_","p","r","o","j">>, <<"d","o","w","n","_","p","r","o","j">>, <<"f","c","1">>, <<"f","c","2">>, <<"c","_","f","c">>, <<"g","a","t","e","_","u","p","_","p","r","o","j">>, <<"d","e","n","s","e","_","h","_","t","o","_","4","h">>, <<"d","e","n","s","e","_","4","h","_","t","o","_","h">>}) THEN "mlp"
      ELSE IF Contains(fp, <<"v","i","s","i","o","n">>) \/ Contains(fp, <<"v","i","s","u","a","l">>) \/ Contains(fp, <<"i","m","a","g","e","_","e","n","c","o","d","e","r">>) \/ Contains(fp, <<"v","i","t">>) \/ Contains(fp, <<"c","l","i","p">>) THEN "vision"
      ELSE "group"

\* c_proj kept in the list of names that are mlp whatever the path
classifySegment_CProjFast(segment, fullPath) ==
  LET s == toLowerCase(segment)
      fp == toLowerCase(fullPath)
  IN  IF Contains(s, <<"e","m","b","e","d">>) \/ s \in {<<"w","t","e">>, <<"w","p","e">>} THEN "embedding"
      ELSE IF \/ Contains(s, <<"n","o","r","m">>) \/ Contains(s, <<"l","a","y","e","r","n","o","r","m">>)
              \/ s \in {<<"l","n","_","1">>, <<"l","n","_","2">>, <<"l","n","_","f">>, <<"f","i","n","a","l","_","l","a","y","e","r","_","n","o","r","m">>, <<"i","n","p","u","t","_","l","a","y","e","r","n","o","r","m">>, <<"p","o","s","t","_","a","t","t","e","n","t","i","o","n","_","l","a","y","e","r","n","o","r","m">>, <<"l","a","y","e","r","_","n","o","r","m","1">>, <<"l","a","y","e","r","_","n","o","r","m","2">>} THEN "norm"
      ELSE IF s \in {<<"l","m","_","h","e","a","d">>, <<"s","c","o","r","e">>, <<"c","l","a","s","s","i","f","i","e","r">>} THEN "head"
      ELSE IF /\ (\/ Contains(s, <<"s","e","l","f","_","a","t","t","n">>) \/ Contains(s, <<"a","t","t","e","n","t","i","o","n">>) \/ Contains(s, <<"a","t","t","n">>)
                  \/ s \in {<<"q","_","p","r","o","j">>, <<"k","_","p","r","o","j">>, <<"v","_","p","r","o","j">>, <<"o","_","p","r","o","j">>, <<"q","k","v","_","p","r","o","j">>, <<"q","u","e","r","y">>, <<"k","e","y">>, <<"v","a","l","u","e">>})
              /\ (\/ Contains(fp, <<"a","t","t","n">>) \/ Contains(fp, <<"a","t","t","e","n","t","i","o","n">>) \/ Contains(fp, <<"s","e","l","f","_","a","t","t","n">>)
                  \/ s \in {<<"q","_","p","r","o","j">>, <<"k","_","p","r","o","j">>, <<"v","_","p","r","o","j">>, <<"o","_","p","r","o","j">>, <<"q","k","v","_","p","r","o","j">>, <<"q","u","e","r","y">>, <<"k","e","y">>, <<"v","a","l","u","e">>}) THEN "attention"
      ELSE IF /\ (\/ Contains(s, <<"m","l","p">>)
                  \/ s \in {<<"g","a","t","e","_","p","r","o","j">>, <<"u","p","_","p","r","o","j">>, <<"d","o","w","n","_","p","r","o","j">>, <<"f","c","1">>, <<"f","c","2">>, <<"c","_","f","c">>, <<"c","_","p","r","o","j">>, <<"g","a","t","e","_","u","p","_","p","r","o","j">>, <<"d","e","n","s","e","_","h","_","t","o","_","4","h">>, <<"d","e","n","s","e","_","4","h","_","t","o","_","h">>})
              /\ (\/ Contains(fp, <<"m","l","p">>)
                  \/ s \in {<<"g","a","t","e","_","p","r","o","j">>, <<"u","p","_","p","r","o","j">>, <<"d","o","w","n","_","p","r","o","j">>, <<"f","c","1">>, <<"f","c","2">>, <<"c","_","f","c">>, <<"c","_","p","r","o","j">>, <<"g","a","t","e","_","u","p","_","p","r","o","j">>, <<"d","e","n","s","e","_","h","_","t","o","_","4","h">>, <<"d","e","n","s","e","_","4","h","_","t","o","_","h">>}) THEN "mlp"
      ELSE IF Contains(fp, <<"v","i","s","i","o","n">>) \/ Contains(fp, <<"v","i","s","u","a","l">>) \/ Contains(fp, <<"i","m","a","g","e","_","e","n","c","o","d","e","r">>) \/ Contains(fp, <<"v","i","t">>) \/ Contains(fp, <<"c","l","i","p">>) THEN "vision"
      ELSE "group"

classifySegment(segment, fullPath) ==
  LET s == toLowerCase(segment)
      fp == toLowerCase(fullPath)
  IN  IF Contains(s, <<"e","m","b","e","d">>) \/ s \in {<<"w","t","e">>, <<"w","p","e">>} THEN "embedding"
      ELSE IF \/ Contains(s, <<"n","o","r","m">>) \/ Contains(s, <<"l","a","y","e","r","n","o","r","m">>)
              \/ s \in {<<"l","n","_","1">>, <<"l","n","_","2">>, <<"l","n","_","f">>, <<"f","i","n","a","l","_","l","a","y","e","r","_","n","o","r","m">>, <<"i","n","p","u","t","_","l","a","y","e","r","n","o","r","m">>, <<"p","o","s","t","_","a","t","t","e","n","t","i","o","n","_","l","a","y","e","r","n","o","r","m">>, <<"l","a","y","e","r","_","n","o","r","m","1">>, <<"l","a","y","e","r","_","n","o","r","m","2">>} THEN "norm"
      ELSE IF s \in {<<"l","m","_","h","e","a","d">>, <<"s","c","o","r","e">>, <<"c","l","a","s","s","i","f","i","e","r">>} THEN "head"
      ELSE IF /\ (\/ Contains(s, <<"s","e","l","f","_","a","t","t","n">>) \/ Contains(s, <<"a","t","t","e","n","t","i","o","n">>) \/ Contains(s, <<"a","t","t","n">>)
                  \/ s \in {<<"q","_","p","r","o","j">>, <<"k","_","p","r","o","j">>, <<"v","_","p","r","o","j">>, <<"o","_","p","r","o","j">>, <<"q","k","v","_","p","r","o","j">>, <<"q","u","e","r","y">>, <<"k","e","y">>, <<"v","a","l","u","e">>})
              /\ (\/ Contains(fp, <<"a","t","t","n">>) \/ Contains(fp, <<"a","t","t","e","n","t","i","o","n">>) \/ Contains(fp, <<"s","e","l","f","_","a","t","t","n">>)
                  \/ s \in {<<"q","_","p","r","o","j">>, <<"k","_","p","r","o","j">>, <<"v","_","p","r","o","j">>, <<"o","_","p","r","o","j">>, <<"q","k","v","_","p","r","o","j">>, <<"q","u","e","r","y">>, <<"k","e","y">>, <<"v","a","l","u","e">>}) THEN "attention"
      ELSE IF /\ (\/ Contains(s, <<"m","l","p">>)
                  \/ s \in {<<"g","a","t","e","_","p","r","o","j">>, <<"u","p","_","p","r","o","j">>, <<"d","o","w","n","_","p","r","o","j">>, <<"f","c","1">>, <<"f","c","2">>, <<"c","_","f","c">>, <<"c","_","p","r","o","j">>, <<"g","a","t","e","_","u","p","_","p","r","o","j">>, <<"d","e","n","s","e","_","h","_","t","o","_","4","h">>, <<"d","e","n","s","e","_","4","h","_","t","o","_","h">>})
              /\ (\/ Contains(fp, <<"m","l","p">>)
                  \/ s \in {<<"g","a","t","e","_","p","r","o","j">>, <<"u","p","_","p","r","o","j">>, <<"d","o","w","n","_","p","r","o","j">>, <<"f","c","1">>, <<"f","c","2">>, <<"c","_","f","c">>, <<"g","a","t","e","_","u","p","_","p","r","o","j">>, <<"d","e","n","s","e","_","h","_","t","o","_","4","h">>, <<"d","e","n","s","e","_","4","h","_","t","o","_","h">>}) THEN "mlp"
      ELSE IF Contains(fp, <<"v","i","s","i","o","n">>) \/ Contains(fp, <<"v","i","s","u","a","l">>) \/ Contains(fp, <<"i","m","a","g","e","_","e","n","c","o","d","e","r">>) \/ Contains(fp, <<"v","i","t">>) \/ Contains(fp, <<"c","l","i","p">>) THEN "vision"
      ELSE "group"

(***************************************************************************)
(* The weight map parser: the trie and the layer tree.  A Map keeps its    *)
(* insertion order, so a trie node holds its keys and its children as two  *)
(* parallel sequences.  A layer node without a paramCount holds undefined. *)
(***************************************************************************)
undefined == -1

RECURSIVE Dedupe(_)
Dedupe(s) ==
  IF s = <<>> THEN <<>>
  ELSE LET rest == Dedupe(SubSeq(s, 1, Len(s) - 1))
       IN  IF Includes(rest, s[Len(s)]) THEN rest ELSE Append(rest, s[Len(s)])

TrieNode(fullPath) == [keys |-> <<>>, kids |-> <<>>, isLeaf |-> FALSE, fullPath |-> fullPath]

\* buildTrie without the children.has(seg) test: every segment of every path
\* gets a trie node of its own
RECURSIVE InsertPath_AlwaysNew(_, _, _)
InsertPath_AlwaysNew(current, segments, i) ==
  IF i > Len(segments) THEN [current EXCEPT !.isLeaf = TRUE]
  ELSE LET child == TrieNode(Join(SubSeq(segments, 1, i), <<DOT>>))
           grown == InsertPath_AlwaysNew(child, segments, i + 1)
       IN  [current EXCEPT !.keys = Append(@, segments[i]), !.kids = Append(@, grown)]

\* the inner loop of buildTrie from segment i on, below node current
RECURSIVE InsertPath(_, _, _)
InsertPath(current, segments, i) ==
  IF i > Len(segments) THEN [current EXCEPT !.isLeaf = TRUE]
  ELSE LET seg == segments[i]
           has == Includes(current.keys, seg)
           k == IF has THEN CHOOSE j \in DOMAIN current.keys : current.keys[j] = seg
                ELSE Len(current.keys) + 1
           child == IF has THEN current.kids[k]
                    ELSE TrieNode(Join(SubSeq(segments, 1, i), <<DOT>>))
           grown == InsertPath(child, segments, i + 1)
       IN  IF has THEN [current EXCEPT !.kids = [@ EXCEPT ![k] = grown]]
           ELSE [current EXCEPT !.keys = Append(@, seg), !.kids = Append(@, grown)]

RECURSIVE InsertPaths(_, _)
InsertPaths(root, modulePaths) ==
  IF modulePaths = <<>> THEN root
  ELSE InsertPaths(InsertPath(root, Split(Head(modulePaths), DOT), 1), Tail(modulePaths))

buildTrie(modulePaths) == InsertPaths(TrieNode(<<>>), modulePaths)

IsSelectable_LeafOnly(child, childNodes) == child.isLeaf

\* the isSelectable of the node made of the trie node child
IsSelectable(child, childNodes) == child.isLeaf /\ Len(childNodes) = 0

\* the loop of trieToLayerNodes from child number k on
RECURSIVE LayerNodesFrom(_, _)
LayerNodesFrom(trie, k) ==
  IF k > Len(trie.keys) THEN <<>>
  ELSE LET name == trie.keys[k]
           child == trie.kids[k]
           childNodes == LayerNodesFrom(child, 1)
       IN  << [id |-> child.fullPath,
               name |-> name,
               fullPath |-> child.fullPath,
               type |-> classifySegment(name, child.fullPath),
               children |-> childNodes,
               isSelectable |-> IsSelectable(child, childNodes),
               paramCount |-> undefined] >> \o LayerNodesFrom(trie, k + 1)

trieToLayerNodes(trie) == LayerNodesFrom(trie, 1)

Unkeyed(pairs) == [i \in DOMAIN pairs |-> pairs[i].node]

\* the nodes under the sort key parseInt(node.name, 10)
ByLayerNumber(nodes) ==
  [i \in DOMAIN nodes |-> [key |-> parseInt(nodes[i].name), node |-> nodes[i]]]

\* the numbered nodes appended in the order they came in
RECURSIVE collapseNumberedLayers_Unsorted(_)
collapseNumberedLayers_Unsorted(nodes) ==
  LET numbered == SelectSeq(nodes, LAMBDA n : IsDigits(n.name))
      others == SelectSeq(nodes, LAMBDA n : ~IsDigits(n.name))
      result == others \o numbered
  IN  [i \in DOMAIN result |->
         [result[i] EXCEPT !.children = collapseNumberedLayers_Unsorted(@)]]

RECURSIVE collapseNumberedLayers(_)
collapseNumberedLayers(nodes) ==
  LET numbered == SelectSeq(nodes, LAMBDA n : IsDigits(n.name))
      others == SelectSeq(nodes, LAMBDA n : ~IsDigits(n.name))
      result == others \o Unkeyed(SortByKey(ByLayerNumber(numbered)))
  IN  [i \in DOMAIN result |->
         [result[i] EXCEPT !.children = collapseNumberedLayers(@)]]

\* index is the weight map: the sequence of its entries [key, file], in
\* the order of Object.keys
parseWeightMap(index) ==
  LET keys == [i \in DOMAIN index |-> index[i].key]
      modulePaths == Dedupe([i \in DOMAIN keys |-> stripWeightSuffix(keys[i])])
  IN  collapseNumberedLayers(trieToLayerNodes(buildTrie(SortStrings(modulePaths))))

\* the priorities times ten, so that 5.1 is 51
getForwardPassPriority(name) ==
  LET s == toLowerCase(name)
  IN  IF Contains(s, <<"e","m","b","e","d">>) \/ s \in {<<"w","t","e">>, <<"w","p","e">>, <<"p","a","t","c","h","_","e","m","b","e","d">>, <<"p","o","s","_","e","m","b","e","d">>} THEN 0
      ELSE IF Contains(s, <<"v","i","s","u","a","l">>) \/ Contains(s, <<"v","i","s","i","o","n">>) \/ s \in {<<"v","i","t">>, <<"c","l","i","p">>, <<"i","m","a","g","e","_","e","n","c","o","d","e","r">>} THEN 10
      ELSE IF s \in {<<"m","e","r","g","e","r">>, <<"c","o","n","n","e","c","t","o","r">>, <<"p","r","o","j","e","c","t","o","r">>, <<"m","u","l","t","i","_","m","o","d","a","l","_","p","r","o","j","e","c","t","o","r">>, <<"d","e","e","p","s","t","a","c","k">>} THEN 20
      ELSE IF s \in {<<"l","a","n","g","u","a","g","e","_","m","o","d","e","l">>, <<"m","o","d","e","l">>, <<"t","r","a","n","s","f","o","r","m","e","r">>} THEN 30
      ELSE IF s \in {<<"l","a","y","e","r","s">>, <<"b","l","o","c","k","s">>, <<"h">>, <<"e","n","c","o","d","e","r">>} \/ IsDigits(s) THEN 40
      ELSE IF s \in {<<"i","n","p","u","t","_","l","a","y","e","r","n","o","r","m">>, <<"l","a","y","e","r","_","n","o","r","m","1">>} THEN 50
      ELSE IF s \in {<<"s","e","l","f","_","a","t","t","n">>, <<"a","t","t","e","n","t","i","o","n">>, <<"a","t","t","n">>} THEN 51
      ELSE IF s \in {<<"p","o","s","t","_","a","t","t","e","n","t","i","o","n","_","l","a","y","e","r","n","o","r","m">>, <<"l","a","y","e","r","_","n","o","r","m","2">>} THEN 52
      ELSE IF s = <<"m","l","p">> THEN 53
      ELSE IF s \in {<<"n","o","r","m">>, <<"l","n","_","f">>, <<"f","i","n","a","l","_","l","a","y","e","r","_","n","o","r","m">>, <<"f","i","n","a","l","_","l","a","y","e","r","n","o","r","m">>} THEN 60
      ELSE IF s \in {<<"l","m","_","h","e","a","d">>, <<"c","l","a","s","s","i","f","i","e","r">>, <<"s","c","o","r","e">>} THEN 70
      ELSE 990

\* the nodes under the sort key getForwardPassPriority(node.name)
ByPriority(nodes) ==
  [i \in DOMAIN nodes |-> [key |-> getForwardPassPriority(nodes[i].name), node |-> nodes[i]]]

\* the top level sorted, the levels below left as they are
sortForwardPass_TopOnly(nodes) == Unkeyed(SortByKey(ByPriority(nodes)))

\* the sorted nodes rebuilt from the fields of the parsed tree: paramCount is
\* not carried over
RECURSIVE sortForwardPass_CountDropped(_)
sortForwardPass_CountDropped(nodes) ==
  LET sorted == Unkeyed(SortByKey(ByPriority(nodes)))
  IN  [i \in DOMAIN sorted |->
         [sorted[i] EXCEPT !.children = sortForwardPass_CountDropped(@),
                           !.paramCount = undefined]]

RECURSIVE sortForwardPass(_)
sortForwardPass(nodes) ==
  LET sorted == Unkeyed(SortByKey(ByPriority(nodes)))
  IN  [i \in DOMAIN sorted |-> [sorted[i] EXCEPT !.children = sortForwardPass(@)]]

RECURSIVE SumCounts(_)
\* reduce((sum, c) => sum + (c.paramCount ?? 0), 0)
SumCounts(nodes) ==
  IF nodes = <<>> THEN 0
  ELSE (IF Head(nodes).paramCount = undefined THEN 0 ELSE Head(nodes).paramCount)
       + SumCounts(Tail(nodes))

\* moduleParams.set(modulePath, count): the last tensor of a module replaces
\* the ones before it
ModuleParams_Overwrite(tensorParamCounts, modulePath) ==
  LET hits == {i \in DOMAIN tensorParamCounts :
                 stripWeightSuffix(tensorParamCounts[i].name) = modulePath}
  IN  IF hits = {} THEN undefined
      ELSE tensorParamCounts[CHOOSE i \in hits : \A j \in hits : j <= i].count

RECURSIVE ModuleParams(_, _)
\* moduleParams.get(modulePath) over the entries [name, count] of
\* tensorParamCounts; undefined when no tensor name normalizes to modulePath
ModuleParams(tensorParamCounts, modulePath) ==
  IF tensorParamCounts = <<>> THEN undefined
  ELSE LET last == tensorParamCounts[Len(tensorParamCounts)]
           before == ModuleParams(SubSeq(tensorParamCounts, 1, Len(tensorParamCounts) - 1),
                                  modulePath)
       IN  IF stripWeightSuffix(last.name) = modulePath
             THEN (IF before = undefined THEN 0 ELSE before) + last.count
             ELSE before

RECURSIVE attachParamCounts(_, _)
attachParamCounts(nodes, tensorParamCounts) ==
  [i \in DOMAIN nodes |->
     LET node == nodes[i]
     IN  IF Len(node.children) = 0
           THEN LET found == ModuleParams(tensorParamCounts, node.fullPath)
                IN  [node EXCEPT !.paramCount = IF found = undefined THEN 0 ELSE found]
           ELSE LET children == attachParamCounts(node.children, tensorParamCounts)
                IN  [node EXCEPT !.children = children, !.paramCount = SumCounts(children)]]

(***************************************************************************)
(* The parameter estimate (estimateParams).  A config is a record of its   *)
(* fields, undefined where the JSON has none; a missing text_config or     *)
(* vision_config reads as one whose fields are all undefined, which is     *)
(* what config.text_config?.x and the guard on vc make of it.              *)
(***************************************************************************)
\* a ?? b
Nullish(a, b) == IF a # undefined THEN a ELSE b

\* the truthiness of an optional number
Truthy(a) == a # undefined /\ a # 0

NORM_NAMES ==
  {<<"i","n","p","u","t","_","l","a","y","e","r","n","o","r","m">>, <<"p","o","s","t","_","a","t","t","e","n","t","i","o","n","_","l","a","y","e","r","n","o","r","m">>, <<"n","o","r","m">>, <<"l","n","_","f">>,
   <<"f","i","n","a","l","_","l","a","y","e","r","n","o","r","m">>, <<"l","a","y","e","r","_","n","o","r","m">>, <<"l","a","y","e","r","n","o","r","m">>, <<"l","n","_","1">>, <<"l","n","_","2">>}

isVisionPath(fullPath) ==
  LET lower == toLowerCase(fullPath)
  IN  Contains(lower, <<"v","i","s","u","a","l">>) \/ Contains(lower, <<"v","i","s","i","o","n">>)

isNormNode(name) == name \in NORM_NAMES \/ Contains(toLowerCase(name), <<"n","o","r","m">>)

estimateLeafText(name, d) ==
  IF name \in {<<"e","m","b","e","d","_","t","o","k","e","n","s">>, <<"e","m","b","e","d","_","i","n">>, <<"w","t","e">>} THEN d.V * d.H
  ELSE IF name = <<"q","_","p","r","o","j">> THEN d.H * (d.headDim * d.N)
  ELSE IF name \in {<<"k","_","p","r","o","j">>, <<"v","_","p","r","o","j">>} THEN d.H * (d.headDim * d.KV)
  ELSE IF name \in {<<"o","_","p","r","o","j">>, <<"d","e","n","s","e">>} THEN (d.headDim * d.N) * d.H
  ELSE IF name \in {<<"q","k","v","_","p","r","o","j">>, <<"q","u","e","r","y","_","k","e","y","_","v","a","l","u","e">>} THEN d.H * (d.headDim * (d.N + 2 * d.KV))
  ELSE IF name \in {<<"g","a","t","e","_","p","r","o","j">>, <<"u","p","_","p","r","o","j">>} THEN d.H * d.I
  ELSE IF name = <<"g","a","t","e","_","u","p","_","p","r","o","j">> THEN d.H * 2 * d.I
  ELSE IF name = <<"d","o","w","n","_","p","r","o","j">> THEN d.I * d.H
  ELSE IF name = <<"d","e","n","s","e","_","h","_","t","o","_","4","h">> THEN d.H * d.I
  ELSE IF name = <<"d","e","n","s","e","_","4","h","_","t","o","_","h">> THEN d.I * d.H
  ELSE IF name \in {<<"l","m","_","h","e","a","d">>, <<"e","m","b","e","d","_","o","u","t">>, <<"c","l","a","s","s","i","f","i","e","r">>, <<"s","c","o","r","e">>} THEN d.H * d.V
  ELSE IF name = <<"i","n","_","p","r","o","j","_","q","k","v","z">> THEN
    (IF Truthy(d.linKeyHeads) /\ Truthy(d.linKeyDim) /\ Truthy(d.linValHeads) /\ Truthy(d.linValDim)
       THEN d.H * (2 * d.linKeyHeads * d.linKeyDim + 2 * d.linValHeads * d.linValDim)
       ELSE undefined)
  ELSE IF name = <<"i","n","_","p","r","o","j","_","b","a">> THEN
    (IF Truthy(d.linKeyHeads) /\ Truthy(d.linKeyDim)
       THEN d.H * (2 * d.linKeyHeads * d.linKeyDim) ELSE undefined)
  ELSE IF name = <<"o","u","t","_","p","r","o","j">> THEN
    (IF Truthy(d.linValHeads) /\ Truthy(d.linValDim)
       THEN d.linValHeads * d.linValDim * d.H ELSE undefined)
  ELSE IF name = <<"c","o","n","v","1","d">> THEN
    (IF Truthy(d.linKeyHeads) /\ Truthy(d.linKeyDim)
       THEN d.linKeyHeads * d.linKeyDim * 4 ELSE undefined)
  ELSE IF name \in {<<"A","_","l","o","g">>, <<"d","t","_","b","i","a","s">>} THEN d.linKeyHeads
  ELSE IF isNormNode(name) THEN d.H
  ELSE undefined

estimateLeafVision(name, d) ==
  IF name \in {<<"p","a","t","c","h","_","e","m","b","e","d","d","i","n","g">>, <<"p","o","s","i","t","i","o","n","_","e","m","b","e","d","d","i","n","g">>} THEN undefined
  ELSE IF name \in {<<"q","_","p","r","o","j">>, <<"k","_","p","r","o","j">>, <<"v","_","p","r","o","j">>, <<"o","u","t","_","p","r","o","j">>} THEN d.VH * d.VH
  ELSE IF name = <<"f","c","1">> THEN d.VH * d.VI
  ELSE IF name = <<"f","c","2">> THEN d.VI * d.VH
  ELSE IF isNormNode(name) THEN d.VH
  ELSE undefined

\* textDims and visionDims are <<>> for null and <<d>> for the dimensions d
RECURSIVE walkTree(_, _, _)
walkTree(nodes, textDims, visionDims) ==
  [i \in DOMAIN nodes |->
     LET node == nodes[i]
     IN  IF Len(node.children) = 0
           THEN LET inVision == isVisionPath(node.fullPath)
                    paramCount ==
                      IF inVision /\ visionDims # <<>>
                        THEN estimateLeafVision(node.name, visionDims[1])
                      ELSE IF ~inVision /\ textDims # <<>>
                        THEN estimateLeafText(node.name, textDims[1])
                      ELSE undefined
                IN  IF paramCount # undefined THEN [node EXCEPT !.paramCount = paramCount]
                    ELSE node
           ELSE LET newChildren == walkTree(node.children, textDims, visionDims)
                    sum == SumCounts(newChildren)
                IN  [node EXCEPT !.children = newChildren,
                                 !.paramCount = IF sum > 0 THEN sum ELSE @]]

\* lines 168-185: <<>> for null
ResolveTextDims(config) ==
  LET tc == config.text_config
      H == Nullish(config.hidden_size, tc.hidden_size)
      I == Nullish(config.intermediate_size, tc.intermediate_size)
      V == Nullish(config.vocab_size, tc.vocab_size)
      N == Nullish(config.num_attention_heads, tc.num_attention_heads)
  IN  IF Truthy(H) /\ Truthy(I) /\ Truthy(V) /\ Truthy(N)
          THEN << [H |-> H, I |-> I, V |-> V, N |-> N,
                   KV |-> Nullish(config.num_key_value_heads, Nullish(tc.num_key_value_heads, N)),
                   headDim |-> Nullish(config.head_dim, Nullish(tc.head_dim, H \div N)),
                   linKeyHeads |-> config.linear_num_key_heads,
                   linKeyDim |-> config.linear_key_head_dim,
                   linValHeads |-> config.linear_num_value_heads,
                   linValDim |-> config.linear_value_head_dim] >>
          ELSE <<>>

\* lines 187-197: <<>> for null
ResolveVisionDims(config) ==
  LET vc == config.vision_config
      VH == vc.hidden_size
      VI == vc.intermediate_size
      VN == Nullish(vc.num_attention_heads, vc.num_heads)
  IN  IF Truthy(VH) /\ Truthy(VI) /\ Truthy(VN)
          THEN << [VH |-> VH, VI |-> VI, VN |-> VN] >>
          ELSE <<>>

estimateParamCounts(config, nodes) ==
  walkTree(nodes, ResolveTextDims(config), ResolveVisionDims(config))

RECURSIVE NodesOf(_)
\* every node of a tree, at every depth
NodesOf(nodes) ==
  IF nodes = <<>> THEN {}
  ELSE {Head(nodes)} \cup NodesOf(Head(nodes).children) \cup NodesOf(Tail(nodes))

\* walk of collectSelectablePaths
RECURSIVE collectSelectablePaths(_)
collectSelectablePaths(nodes) ==
  IF nodes = <<>> THEN <<>>
  ELSE LET node == Head(nodes)
       IN  (IF node.isSelectable THEN <<node.fullPath>> ELSE <<>>)
             \o collectSelectablePaths(node.children)
             \o collectSelectablePaths(Tail(nodes))

\* Map.prototype.set on a map kept as the sequence of its entries [path, count]
MapSet(map, path, count) ==
  IF \E i \in DOMAIN map : map[i].path = path
    THEN [i \in DOMAIN map |-> IF map[i].path = path THEN [path |-> path, count |-> count] ELSE map[i]]
    ELSE Append(map, [path |-> path, count |-> count])

\* walk of collectLeafParamCounts, map being the map filled so far
RECURSIVE LeafParamCounts(_, _)
LeafParamCounts(nodes, map) ==
  IF nodes = <<>> THEN map
  ELSE LET node == Head(nodes)
           set == IF node.isSelectable /\ node.paramCount # undefined
                    THEN MapSet(map, node.fullPath, node.paramCount)
                    ELSE map
       IN  LeafParamCounts(Tail(nodes), LeafParamCounts(node.children, set))

collectLeafParamCounts(nodes) == LeafParamCounts(nodes, <<>>)

(***************************************************************************)
(* The tree of a model without a weight index (configParser.ts).  A config *)
(* is a record of its optional fields: an optional number is undefined     *)
(* when absent, an optional string is <<>> when absent and <<s>> when      *)
(* present, an absent text_config or vision_config is the record of absent *)
(* fields (an empty object {} for vision_config is not among the inputs).  *)
(***************************************************************************)
\* `${base}.${name}` for every name
Under(base, names) == [i \in DOMAIN names |-> base \o <<DOT>> \o names[i]]

\* the paths pushed by a loop over the layers 0 .. numLayers - 1, perLayer(i)
\* being the names pushed for layer i under `${stem}.${i}`
RECURSIVE LayerLoop(_, _, _, _)
LayerLoop(stem, perLayer, i, numLayers) ==
  IF i >= numLayers THEN <<>>
  ELSE Under(stem \o <<DOT>> \o NumToString(i), perLayer[i]) \o LayerLoop(stem, perLayer, i + 1, numLayers)

llamaLikePaths(config, prefix) ==
  LET numLayers == Nullish(config.num_hidden_layers, Nullish(config.text_config.num_hidden_layers, 32))
      perLayer == [i \in 0..(numLayers - 1) |-> <<<<"s","e","l","f","_","a","t","t","n",".","q","_","p","r","o","j">>, <<"s","e","l","f","_","a","t","t","n",".","k","_","p","r","o","j">>, <<"s","e","l","f","_","a","t","t","n",".","v","_","p","r","o","j">>, <<"s","e","l","f","_","a","t","t","n",".","o","_","p","r","o","j">>, <<"m","l","p",".","g","a","t","e","_","p","r","o","j">>, <<"m","l","p",".","u","p","_","p","r","o","j">>, <<"m","l","p",".","d","o","w","n","_","p","r","o","j">>, <<"i","n","p","u","t","_","l","a","y","e","r","n","o","r","m">>, <<"p","o","s","t","_","a","t","t","e","n","t","i","o","n","_","l","a","y","e","r","n","o","r","m">>>>]
  IN  Under(prefix, <<<<"e","m","b","e","d","_","t","o","k","e","n","s">>, <<"n","o","r","m">>>>)
        \o LayerLoop(prefix \o <<".","l","a","y","e","r","s">>, perLayer, 0, numLayers)
        \o <<<<"l","m","_","h","e","a","d">>>>

qwenPaths(config) == llamaLikePaths(config, <<"m","o","d","e","l">>)

phi3Paths(config) ==
  LET numLayers == Nullish(config.num_hidden_layers, 32)
      perLayer == [i \in 0..(numLayers - 1) |-> <<<<"s","e","l","f","_","a","t","t","n",".","q","k","v","_","p","r","o","j">>, <<"s","e","l","f","_","a","t","t","n",".","o","_","p","r","o","j">>, <<"m","l","p",".","g","a","t","e","_","u","p","_","p","r","o","j">>, <<"m","l","p",".","d","o","w","n","_","p","r","o","j">>, <<"i","n","p","u","t","_","l","a","y","e","r","n","o","r","m">>, <<"p","o","s","t","_","a","t","t","e","n","t","i","o","n","_","l","a","y","e","r","n","o","r","m">>>>]
  IN  <<<<"m","o","d","e","l",".","e","m","b","e","d","_","t","o","k","e","n","s">>, <<"m","o","d","e","l",".","n","o","r","m">>>>
        \o LayerLoop(<<"m","o","d","e","l",".","l","a","y","e","r","s">>, perLayer, 0, numLayers)
        \o <<<<"l","m","_","h","e","a","d">>>>

qwen3NextPaths(config) ==
  LET numLayers == Nullish(config.num_hidden_layers, 48)
      interval == Nullish(config.full_attention_interval, 4)
      \* (i + 1) % 0 is NaN, which is never === 0
      isFullAttn(i) == interval # 0 /\ (i + 1) % interval = 0
      perLayer == [i \in 0..(numLayers - 1) |->
                     <<<<"i","n","p","u","t","_","l","a","y","e","r","n","o","r","m">>>>
                       \o (IF isFullAttn(i) THEN <<<<"s","e","l","f","_","a","t","t","n",".","q","_","p","r","o","j">>, <<"s","e","l","f","_","a","t","t","n",".","k","_","p","r","o","j">>, <<"s","e","l","f","_","a","t","t","n",".","v","_","p","r","o","j">>, <<"s","e","l","f","_","a","t","t","n",".","o","_","p","r","o","j">>>> ELSE <<<<"l","i","n","e","a","r","_","a","t","t","n",".","i","n","_","p","r","o","j","_","q","k","v","z">>, <<"l","i","n","e","a","r","_","a","t","t","n",".","i","n","_","p","r","o","j","_","b","a">>, <<"l","i","n","e","a","r","_","a","t","t","n",".","c","o","n","v","1","d">>, <<"l","i","n","e","a","r","_","a","t","t","n",".","A","_","l","o","g">>, <<"l","i","n","e","a","r","_","a","t","t","n",".","d","t","_","b","i","a","s">>, <<"l","i","n","e","a","r","_","a","t","t","n",".","n","o","r","m">>, <<"l","i","n","e","a","r","_","a","t","t","n",".","o","u","t","_","p","r","o","j">>>>)
                       \o <<<<"m","l","p",".","g","a","t","e","_","p","r","o","j">>, <<"m","l","p",".","u","p","_","p","r","o","j">>, <<"m","l","p",".","d","o","w","n","_","p","r","o","j">>>>]
  IN  <<<<"m","o","d","e","l",".","e","m","b","e","d","_","t","o","k","e","n","s">>, <<"m","o","d","e","l",".","n","o","r","m">>>>
        \o LayerLoop(<<"m","o","d","e","l",".","l","a","y","e","r","s">>, perLayer, 0, numLayers)
        \o <<<<"l","m","_","h","e","a","d">>>>

gptNeoxPaths(config) ==
  LET numLayers == Nullish(config.num_hidden_layers, 32)
      perLayer == [i \in 0..(numLayers - 1) |-> <<<<"a","t","t","e","n","t","i","o","n",".","q","u","e","r","y","_","k","e","y","_","v","a","l","u","e">>, <<"a","t","t","e","n","t","i","o","n",".","d","e","n","s","e">>, <<"m","l","p",".","d","e","n","s","e","_","h","_","t","o","_","4","h">>, <<"m","l","p",".","d","e","n","s","e","_","4","h","_","t","o","_","h">>, <<"i","n","p","u","t","_","l","a","y","e","r","n","o","r","m">>, <<"p","o","s","t","_","a","t","t","e","n","t","i","o","n","_","l","a","y","e","r","n","o","r","m">>>>]
  IN  <<<<"g","p","t","_","n","e","o","x",".","e","m","b","e","d","_","i","n">>, <<"g","p","t","_","n","e","o","x",".","f","i","n","a","l","_","l","a","y","e","r","_","n","o","r","m">>>>
        \o LayerLoop(<<"g","p","t","_","n","e","o","x",".","l","a","y","e","r","s">>, perLayer, 0, numLayers)
        \o <<<<"e","m","b","e","d","_","o","u","t">>>>

\* config.vision_config is truthy
HasVisionConfig(config) ==
  \E f \in DOMAIN config.vision_config : config.vision_config[f] # undefined

addVisionPaths(config) ==
  IF ~HasVisionConfig(config) THEN <<>>
  ELSE LET vc == config.vision_config
           numLayers == Nullish(vc.num_hidden_layers, Nullish(vc.depth, 24))
           perLayer == [i \in 0..(numLayers - 1) |-> <<<<"s","e","l","f","_","a","t","t","n",".","q","_","p","r","o","j">>, <<"s","e","l","f","_","a","t","t","n",".","k","_","p","r","o","j">>, <<"s","e","l","f","_","a","t","t","n",".","v","_","p","r","o","j">>, <<"s","e","l","f","_","a","t","t","n",".","o","u","t","_","p","r","o","j">>, <<"m","l","p",".","f","c","1">>, <<"m","l","p",".","f","c","2">>, <<"l","a","y","e","r","_","n","o","r","m","1">>, <<"l","a","y","e","r","_","n","o","r","m","2">>>>]
       IN  <<<<"v","i","s","u","a","l","_","m","o","d","e","l",".","e","m","b","e","d","d","i","n","g","s",".","p","a","t","c","h","_","e","m","b","e","d","d","i","n","g">>, <<"v","i","s","u","a","l","_","m","o","d","e","l",".","e","m","b","e","d","d","i","n","g","s",".","p","o","s","i","t","i","o","n","_","e","m","b","e","d","d","i","n","g">>, <<"v","i","s","u","a","l","_","m","o","d","e","l",".","l","a","y","e","r","n","o","r","m">>>>
             \o LayerLoop(<<"v","i","s","u","a","l","_","m","o","d","e","l",".","e","n","c","o","d","e","r",".","l","a","y","e","r","s">>, perLayer, 0, numLayers)

\* c.model_type ?? c.text_config?.model_type ?? ''
ModelTypeOf(c) ==
  IF c.model_type # <<>> THEN c.model_type[1]
  ELSE IF c.text_config.model_type # <<>> THEN c.text_config.model_type[1]
  ELSE ""

\* the paths of the first pattern of architecturePatterns whose test passes,
\* <<>> when none does
PatternPaths(c) ==
  IF ModelTypeOf(c) \in {"llama", "mistral", "gemma", "gemma2", "cohere", "deepseek"} THEN llamaLikePaths(c, <<"m","o","d","e","l">>)
  ELSE IF ModelTypeOf(c) \in {"qwen2", "qwen2_moe", "qwen", "qwen2_vl", "qwen3", "qwen3_vl"} THEN qwenPaths(c)
  ELSE IF ModelTypeOf(c) = "qwen3_next" THEN qwen3NextPaths(c)
  ELSE IF c.model_type \in {<<"phi3">>, <<"phi">>} THEN phi3Paths(c)
  ELSE IF c.model_type = <<"gpt_neox">> THEN gptNeoxPaths(c)
  ELSE <<>>

\* <<>> for null, else <<[tree, selectablePaths]>>
buildTreeFromConfig(config) ==
  LET matched == PatternPaths(config)
      fallback == IF matched = <<>> /\ (Truthy(config.num_hidden_layers) \/ Truthy(config.text_config.num_hidden_layers))
                    THEN llamaLikePaths(config, <<"m","o","d","e","l">>)
                    ELSE matched
      paths == fallback \o addVisionPaths(config)
      fakeIndex == [i \in DOMAIN paths |-> [key |-> paths[i] \o <<".","w","e","i","g","h","t">>, file |-> 1]]
      tree_ == parseWeightMap(fakeIndex)
  IN  IF paths = <<>> THEN <<>>
      ELSE << [tree |-> tree_, selectablePaths |-> collectSelectablePaths(tree_)] >>

(***************************************************************************)
(* The auto-ignore presets (BatchToolbar).                                 *)
(***************************************************************************)
\* \w of a regular expression
WordChars == Range(UpperCase) \cup Range(LowerCase) \cup Digits \cup {"_"}

ContainsAny(path, words) == \E w \in words : Contains(path, w)

\* /word\b/.test(path): word, followed by the end or by a character that is
\* not a word character (word ends with a word character)
ContainsWord(path, word) ==
  \E i \in 1..(Len(path) - Len(word) + 1) :
    /\ SubSeq(path, i, i + Len(word) - 1) = word
    /\ i + Len(word) > Len(path) \/ path[i + Len(word)] \notin WordChars

\* path.match(/\.layers\.(\d+)\./): <<>> for null, else <<parseInt(match[1], 10)>>
\* of the leftmost match
AutoLayerMatch(path) ==
  LET head == <<".","l","a","y","e","r","s",".">>
      spans == {<<i, j>> \in (1..Len(path)) \X (1..Len(path)) :
                  /\ i + Len(head) <= j
                  /\ j < Len(path)
                  /\ SubSeq(path, i, i + Len(head) - 1) = head
                  /\ IsDigits(SubSeq(path, i + Len(head), j))
                  /\ path[j + 1] = DOT}
  IN  IF spans = {} THEN <<>>
      ELSE LET sp == CHOOSE x \in spans : \A y \in spans : x[1] <= y[1]
           IN  <<parseInt(SubSeq(path, sp[1] + Len(head), sp[2]))>>

Stage1Words == {<<"l","m","_","h","e","a","d">>, <<"e","m","b","e","d","_","o","u","t">>, <<"c","l","a","s","s","i","f","i","e","r">>, <<"s","c","o","r","e">>}

NormWords == {<<"n","o","r","m">>, <<"l","a","y","e","r","n","o","r","m">>, <<"l","n","_">>}

GateProjWords == {<<"g","a","t","e","_","p","r","o","j">>, <<"g","a","t","e","_","u","p","_","p","r","o","j">>}

MlpWords == {<<"m","l","p">>, <<"g","a","t","e","_","p","r","o","j">>, <<"u","p","_","p","r","o","j">>, <<"d","o","w","n","_","p","r","o","j">>, <<"g","a","t","e","_","u","p","_","p","r","o","j">>, <<"f","c","1">>, <<"f","c","2">>, <<"d","e","n","s","e","_","h","_","t","o","_","4","h">>, <<"d","e","n","s","e","_","4","h","_","t","o","_","h">>, <<"e","x","p","e","r","t","s">>}

\* the rules of stage 2 and of stage 3 applied at that very stage only
AutoIgnoreTest_OwnStageOnly(path, maxLayerIndex_, stage) ==
  LET layerMatch == AutoLayerMatch(path)
  IN  IF ContainsAny(path, Stage1Words) THEN TRUE
      ELSE IF ContainsAny(path, NormWords) THEN TRUE
      ELSE IF ContainsWord(path, <<".","g","a","t","e">>) /\ ~ContainsAny(path, GateProjWords) THEN TRUE
      ELSE IF Contains(path, <<"s","h","a","r","e","d","_","e","x","p","e","r","t","_","g","a","t","e">>) THEN TRUE
      ELSE IF stage = 2 /\ layerMatch # <<>> /\ (layerMatch[1] <= 2 \/ layerMatch[1] >= maxLayerIndex_ - 2) THEN TRUE
      ELSE IF stage = 2 /\ ContainsWord(path, <<".","o","_","p","r","o","j">>) THEN TRUE
      ELSE IF stage < 3 THEN FALSE
      ELSE /\ layerMatch # <<>>
           /\ maxLayerIndex_ > 0
           /\ 10 * layerMatch[1] >= 3 * maxLayerIndex_
           /\ 10 * layerMatch[1] <= 7 * maxLayerIndex_
           /\ ContainsAny(path, MlpWords)

\* the body of the loop of computeAutoIgnore: TRUE when path is pushed on
\* result.  pct >= 0.3 and pct <= 0.7 of pct = idx / maxLayerIndex are taken
\* on the integers
AutoIgnoreTest(path, maxLayerIndex_, stage) ==
  LET layerMatch == AutoLayerMatch(path)
  IN  IF ContainsAny(path, Stage1Words) THEN TRUE
      ELSE IF ContainsAny(path, NormWords) THEN TRUE
      ELSE IF ContainsWord(path, <<".","g","a","t","e">>) /\ ~ContainsAny(path, GateProjWords) THEN TRUE
      ELSE IF Contains(path, <<"s","h","a","r","e","d","_","e","x","p","e","r","t","_","g","a","t","e">>) THEN TRUE
      ELSE IF stage < 2 THEN FALSE
      ELSE IF layerMatch # <<>> /\ (layerMatch[1] <= 2 \/ layerMatch[1] >= maxLayerIndex_ - 2) THEN TRUE
      ELSE IF ContainsWord(path, <<".","o","_","p","r","o","j">>) THEN TRUE
      ELSE IF stage < 3 THEN FALSE
      ELSE /\ layerMatch # <<>>
           /\ maxLayerIndex_ > 0
           /\ 10 * layerMatch[1] >= 3 * maxLayerIndex_
           /\ 10 * layerMatch[1] <= 7 * maxLayerIndex_
           /\ ContainsAny(path, MlpWords)

computeAutoIgnore(paths, maxLayerIndex_, stage) ==
  SelectSeq(paths, LAMBDA path : AutoIgnoreTest(path, maxLayerIndex_, stage))

(***************************************************************************)
(* The tree passes on the JavaScript heap.  A LayerNode[] is a reference   *)
(* to an array of references to node objects, and the children field of a  *)
(* node object is a reference to an array; a heap is the arrays and the    *)
(* objects allocated so far, a reference the position of one of them.      *)
(* Every operator below takes a heap and returns the heap it leaves and    *)
(* the reference it returns.                                               *)
(***************************************************************************)
EmptyHeap == [arrays |-> <<>>, objects |-> <<>>]

\* an array literal, map, filter or slice result: a new array
NewArray(h, elems) ==
  [heap |-> [h EXCEPT !.arrays = Append(@, elems)], ref |-> Len(h.arrays) + 1]

\* an object literal { ...node, ... }: a new object
NewObject(h, fields) ==
  [heap |-> [h EXCEPT !.objects = Append(@, fields)], ref |-> Len(h.objects) + 1]

\* the tree value an array reference stands for
RECURSIVE Deref(_, _)
Deref(h, nodes) ==
  [i \in DOMAIN h.arrays[nodes] |->
     LET node == h.objects[h.arrays[nodes][i]]
     IN  [node EXCEPT !.children = Deref(h, @)]]

\* the node objects of an array
ObjectsOf(h, nodes) == [i \in DOMAIN h.arrays[nodes] |-> h.objects[h.arrays[nodes][i]]]

\* trieToLayerNodes building the tree value nodes from element i on: one
\* object a node, one array a sibling list
RECURSIVE Build(_, _, _, _)
Build(h, nodes, i, refs) ==
  IF i > Len(nodes) THEN NewArray(h, refs)
  ELSE LET childNodes == Build(h, nodes[i].children, 1, <<>>)
           node == NewObject(childNodes.heap, [nodes[i] EXCEPT !.children = childNodes.ref])
       IN  Build(node.heap, nodes, i + 1, Append(refs, node.ref))

\* sort applied to the array itself: no copy is made
slice_SameArray(h, nodes) == [heap |-> h, ref |-> nodes]

\* nodes.slice()
slice(h, nodes) == NewArray(h, h.arrays[nodes])

\* Array.prototype.sort: the array nodes reordered in place, stably, by the
\* keys of its elements
SortInPlace(h, nodes, keys) ==
  LET refs == h.arrays[nodes]
      sorted == Unkeyed(SortByKey([i \in DOMAIN refs |-> [key |-> keys[i], node |-> refs[i]]]))
  IN  [h EXCEPT !.arrays[nodes] = sorted]

RECURSIVE HeapCollapse(_, _)
RECURSIVE HeapCollapseEach(_, _, _, _)
\* collapseNumberedLayers, lines 119-131: { ...node, children:
\* collapseNumberedLayers(node.children) } pushed on the array result for
\* the elements of refs from i on
HeapCollapseEach(h, refs, i, result) ==
  IF i > Len(refs) THEN [heap |-> h, ref |-> result]
  ELSE LET node == h.objects[refs[i]]
           children == HeapCollapse(h, node.children)
           made == NewObject(children.heap, [node EXCEPT !.children = children.ref])
       IN  HeapCollapseEach([made.heap EXCEPT !.arrays[result] = Append(@, made.ref)],
                            refs, i + 1, result)

\* collapseNumberedLayers
HeapCollapse(h, nodes) ==
  LET refs == h.arrays[nodes]
      numbered == NewArray(h, SelectSeq(refs, LAMBDA r : IsDigits(h.objects[r].name)))
      others == NewArray(numbered.heap, SelectSeq(refs, LAMBDA r : ~IsDigits(h.objects[r].name)))
      empty == NewArray(others.heap, <<>>)
      result == HeapCollapseEach(empty.heap, others.heap.arrays[others.ref], 1, empty.ref)
      sortedHeap == SortInPlace(result.heap, numbered.ref,
                                [i \in DOMAIN result.heap.arrays[numbered.ref] |->
                                   parseInt(result.heap.objects[result.heap.arrays[numbered.ref][i]].name)])
  IN  HeapCollapseEach(sortedHeap, sortedHeap.arrays[numbered.ref], 1, result.ref)

RECURSIVE HeapSort(_, _)
RECURSIVE HeapSortEach(_, _, _, _)
\* sortForwardPass, lines 184-187: the map over the sorted array
HeapSortEach(h, refs, i, out) ==
  IF i > Len(refs) THEN NewArray(h, out)
  ELSE LET node == h.objects[refs[i]]
           children == HeapSort(h, node.children)
           made == NewObject(children.heap, [node EXCEPT !.children = children.ref])
       IN  HeapSortEach(made.heap, refs, i + 1, Append(out, made.ref))

\* sortForwardPass
HeapSort(h, nodes) ==
  LET copy == slice(h, nodes)
      sortedHeap == SortInPlace(copy.heap, copy.ref,
                                [i \in DOMAIN copy.heap.arrays[copy.ref] |->
                                   getForwardPassPriority(copy.heap.objects[copy.heap.arrays[copy.ref][i]].name)])
  IN  HeapSortEach(sortedHeap, sortedHeap.arrays[copy.ref], 1, <<>>)

\* attach of attachParamCounts, lines 201-210
RECURSIVE HeapAttach(_, _, _, _, _)
HeapAttach(h, refs, i, out, tensorParamCounts) ==
  IF i > Len(refs) THEN NewArray(h, out)
  ELSE LET node == h.objects[refs[i]]
           made ==
             IF Len(h.arrays[node.children]) = 0
               THEN LET found == ModuleParams(tensorParamCounts, node.fullPath)
                    IN  NewObject(h, [node EXCEPT !.paramCount = IF found = undefined THEN 0 ELSE found])
               ELSE LET children == HeapAttach(h, h.arrays[node.children], 1, <<>>, tensorParamCounts)
                    IN  NewObject(children.heap,
                                  [node EXCEPT !.children = children.ref,
                                               !.paramCount = SumCounts(ObjectsOf(children.heap, children.ref))])
       IN  HeapAttach(made.heap, refs, i + 1, Append(out, made.ref), tensorParamCounts)

\* walkTree, lines 138-164: a leaf without an estimate is returned as it is,
\* the same object
RECURSIVE HeapWalk(_, _, _, _, _, _)
HeapWalk(h, refs, i, out, textDims, visionDims) ==
  IF i > Len(refs) THEN NewArray(h, out)
  ELSE LET node == h.objects[refs[i]]
           made ==
             IF Len(h.arrays[node.children]) = 0
               THEN LET inVision == isVisionPath(node.fullPath)
                        paramCount ==
                          IF inVision /\ visionDims # <<>>
                            THEN estimateLeafVision(node.name, visionDims[1])
                          ELSE IF ~inVision /\ textDims # <<>>
                            THEN estimateLeafText(node.name, textDims[1])
                          ELSE undefined
                    IN  IF paramCount # undefined
                          THEN NewObject(h, [node EXCEPT !.paramCount = paramCount])
                          ELSE [heap |-> h, ref |-> refs[i]]
               ELSE LET newChildren == HeapWalk(h, h.arrays[node.children], 1, <<>>, textDims, visionDims)
                        sum == SumCounts(ObjectsOf(newChildren.heap, newChildren.ref))
                    IN  NewObject(newChildren.heap,
                                  [node EXCEPT !.children = newChildren.ref,
                                               !.paramCount = IF sum > 0 THEN sum ELSE @])
       IN  HeapWalk(made.heap, refs, i + 1, Append(out, made.ref), textDims, visionDims)

(***************************************************************************)
(* State.                                                                  *)
(*   allSelectablePaths, selectedPaths   the selection store; a JavaScript *)
(*                       Set keeps insertion order, so selectedPaths is a  *)
(*                       duplicate-free sequence                           *)
(*   optimized, text, resolved   the values OutputPanel computes: the      *)
(*                       optimizer's rule list, the ignore-list text and   *)
(*                       the paths parsed back from a text                 *)
(*   typed               the items of a hand-written ignore list           *)
(*   weightMap, tree     the weight map of a loaded index and the layer   *)
(*                       tree made of it                                   *)
(*   given, before, passes, tensorParams   a tree handed from pass to     *)
(*                       pass: the tree the first pass was given, the tree *)
(*                       the last pass was given (tree holds what it       *)
(*                       returned), the names of the passes applied so     *)
(*                       far, and the tensor counts of the last            *)
(*                       attachParamCounts                                 *)
(*   classified          a segment, its full path and the role              *)
(*                       classifySegment gives it                          *)
(*   pc                  the step reached                                  *)
(***************************************************************************)
VARIABLES allSelectablePaths, selectedPaths, optimized, text, resolved, typed, pc,
          weightMap, tree,
          classified,
          before, passes, tensorParams,
          given,
          heap, held,
          tensorName, modulePath,
          maxLayerIndex, autoIgnore,
          toggled,
          app, paramCountMap, fetches

vars == <<allSelectablePaths, selectedPaths, optimized, text, resolved, typed, pc,
          weightMap, tree,
          classified,
          before, passes, tensorParams,
          given,
          heap, held,
          tensorName, modulePath,
          maxLayerIndex, autoIgnore,
          toggled,
          app, paramCountMap, fetches>>

\* the results of computeAutoIgnore kept so far, by stage
NothingIgnored == [stages |-> {}, result |-> [stage \in 1..3 |-> <<>>]]

\* no checkbox toggled yet
NoToggle == [node |-> <<>>, selectedBefore |-> <<>>]

\* the state of App before the first load (the useState defaults), but for
\* tree, which is the variable tree, and sortOrder, which only chooses between
\* the two values of displayTree; config and error hold <<>> for null, loads
\* counts the handleLoad invocations so far, awaiting tells that the last one
\* is suspended at its await
AppInit ==
  [config |-> <<>>, modelId |-> "", source |-> "safetensors", loading |-> FALSE,
   error |-> <<>>, baseTree |-> <<>>,
   estimated |-> FALSE, loads |-> 0, awaiting |-> FALSE]

NotClassified == [segment |-> <<>>, fullPath |-> <<>>, type |-> ""]

(***************************************************************************)
(* Bounded inputs: selectable-path universes.                              *)
(***************************************************************************)
Path(segments) == Join(segments, <<DOT>>)

\* the layers of one template: a.0.b, a.1.b, ...
NumLayers == 4
MaxExtras == 1

LayerPath(i) == Path(<<<<"a">>, NumToString(i), <<"b">>>>)

\* other paths a checkpoint can hold beside the layers, in a fixed order
ExtraPaths ==
  << Path(<<<<"a">>, <<"1", "0">>, <<"b">>>>),            \* a.10.b   a two-digit index
     Path(<<<<"a">>, <<"0", "0">>, <<"b">>>>),            \* a.00.b   an index with a leading zero
     Path(<<<<"x", "a">>, <<"0">>, <<"b">>>>),            \* xa.0.b   another template, prefix ends alike
     Path(<<<<"a">>, <<"0">>, <<"b", "c">>>>),            \* a.0.bc   another template, suffix starts alike
     Path(<<<<"c">>, <<"0">>, <<"d">>>>),                 \* c.0.d    another template
     Path(<<<<"a">>, <<"0">>, <<"b">>, <<"1">>, <<"c">>>>), \* a.0.b.1.c two numeric segments
     Path(<<<<"l", "m">>>>),                              \* lm       no numeric segment
     Path(<<<<"a">>, <<"0">>>>),                          \* a.0      numeric segment last
     Path(<<<<"0">>, <<"a">>>>) >>                        \* 0.a      numeric segment first

\* the subsequence of s at the positions of the set keep
SubSeqAt(s, keep) == SelectSeq([i \in DOMAIN s |-> IF i \in keep THEN <<s[i]>> ELSE <<>>], LAMBDA x : x # <<>>)

Pick(s, keep) == Flatten(SubSeqAt(s, keep))

Reverse(s) == [i \in DOMAIN s |-> s[Len(s) + 1 - i]]

\* the universe of the end-to-end scenario: every template has one instance
ExampleUniverse ==
  << <<"m","o","d","e","l",".","e","m","b","e","d","_","t","o","k","e","n","s">>,
     <<"m","o","d","e","l",".","l","a","y","e","r","s",".","0",".","s","e","l","f","_","a","t","t","n",".","q","_","p","r","o","j">>,
     <<"m","o","d","e","l",".","l","a","y","e","r","s",".","0",".","m","l","p",".","d","o","w","n","_","p","r","o","j">>,
     <<"m","o","d","e","l",".","n","o","r","m">>,
     <<"l","m","_","h","e","a","d">> >>

Universes ==
  {[i \in 1..n |-> LayerPath(i - 1)] \o Pick(ExtraPaths, keep) :
      n \in 0..NumLayers,
      keep \in {k \in SUBSET DOMAIN ExtraPaths : Cardinality(k) <= MaxExtras}}
    \cup {ExampleUniverse}

\* duplicate-free selections of a universe, in universe order or reversed
Selections(all) ==
  LET inOrder == {Pick(all, keep) : keep \in SUBSET DOMAIN all}
  IN  inOrder \cup {Reverse(sel) : sel \in inOrder}

(***************************************************************************)
(* Bounded inputs: hand-written ignore lists.                              *)
(***************************************************************************)
MaxItems == 3
ParseLayers == 2

\* what a user types between the quotes
TypedItems ==
  { <<"a",".","0",".","b">>,   \* a.0.b          a literal
    <<"z","z">>,   \* zz             a literal of no universe
    <<"r","e",":","a","\\",".","\\","d","+","\\",".","b">>,   \* re:a\.\d+\.b   the emitted wildcard form
    <<"r","e",":","l",".","*","|","a","\\",".","1">>,   \* re:l.*|a\.1    an alternation at top level
    <<"r","e",":","a","(">>,   \* re:a(          an unterminated group
    <<"r","e",":","+","a">> }  \* re:+a          nothing to repeat

TypedStyles == {"emitted", "inline", "bare"}

TypedLists ==
  UNION {[1..n -> TypedItems] : n \in 0..MaxItems}

NothingTyped == [items |-> <<>>, style |-> "emitted"]

ParseUniverses ==
  {[i \in 1..n |-> LayerPath(i - 1)] \o extra : n \in 0..ParseLayers, extra \in {<<>>, <<ExtraPaths[7]>>}}

\* the text a user writes for a list of items:
\*   emitted   as formatIgnoreList writes it
\*   inline    ignore=['x', 'y'] on one line, single quotes
\*   bare      the quoted items, one a line, with no brackets
WriteText(t) ==
  IF t.style = "emitted" THEN formatIgnoreList(t.items)
  ELSE IF t.style = "inline"
    THEN <<"i", "g", "n", "o", "r", "e", "=", "[">>
           \o Join([k \in DOMAIN t.items |-> <<SQ>> \o t.items[k] \o <<SQ>>], <<",", SP>>)
           \o <<"]">>
  ELSE Join([k \in DOMAIN t.items |-> <<DQ>> \o t.items[k] \o <<DQ, ",">>], <<NL>>)

(***************************************************************************)
(* SpecOpt: the optimizer round trip.  optimizeSelection, formatIgnoreList *)
(* and parseIgnoreItems applied in turn to a selection of a universe.      *)
(***************************************************************************)
InitOpt ==
  /\ allSelectablePaths \in Universes
  /\ selectedPaths \in Selections(allSelectablePaths)
  /\ optimized = <<>>
  /\ text = <<>>
  /\ resolved = <<>>
  /\ typed = NothingTyped
  /\ weightMap = <<>>
  /\ tree = <<>>
  /\ classified = NotClassified
  /\ before = <<>>
  /\ passes = <<>>
  /\ tensorParams = <<>>
  /\ given = <<>>
  /\ heap = EmptyHeap
  /\ held = <<>>
  /\ tensorName = <<>>
  /\ modulePath = <<>>
  /\ maxLayerIndex = 0
  /\ autoIgnore = NothingIgnored
  /\ toggled = NoToggle
  /\ app = AppInit
  /\ paramCountMap = <<>>
  /\ fetches = {}
  /\ pc = "selected"

Optimize ==
  /\ pc = "selected"
  /\ optimized' = optimizeSelection(selectedPaths, allSelectablePaths)
  /\ pc' = "optimized"
  /\ UNCHANGED <<allSelectablePaths, selectedPaths, text, resolved, typed, weightMap, tree, classified, before, passes, tensorParams, given, heap, held, tensorName, modulePath, maxLayerIndex, autoIgnore, toggled, app, paramCountMap, fetches>>

Format ==
  /\ pc = "optimized"
  /\ text' = formatIgnoreList(optimized)
  /\ pc' = "text"
  /\ UNCHANGED <<allSelectablePaths, selectedPaths, optimized, resolved, typed, weightMap, tree, classified, before, passes, tensorParams, given, heap, held, tensorName, modulePath, maxLayerIndex, autoIgnore, toggled, app, paramCountMap, fetches>>

Parse ==
  /\ pc = "text"
  /\ resolved' = parseIgnoreItems(text, allSelectablePaths)
  /\ pc' = "parsed"
  /\ UNCHANGED <<allSelectablePaths, selectedPaths, optimized, text, typed, weightMap, tree, classified, before, passes, tensorParams, given, heap, held, tensorName, modulePath, maxLayerIndex, autoIgnore, toggled, app, paramCountMap, fetches>>

NextOpt == Optimize \/ Format \/ Parse

SpecOpt == InitOpt /\ [][NextOpt]_vars

(***************************************************************************)
(* SpecParse: parseIgnoreItems applied to a hand-written text (the Apply   *)
(* button of OutputPanel on an edited text).                               *)
(***************************************************************************)
InitParse ==
  /\ allSelectablePaths \in ParseUniverses
  /\ selectedPaths = <<>>
  /\ optimized = <<>>
  /\ text = <<>>
  /\ resolved = <<>>
  /\ typed \in [items : TypedLists, style : TypedStyles]
  /\ weightMap = <<>>
  /\ tree = <<>>
  /\ classified = NotClassified
  /\ before = <<>>
  /\ passes = <<>>
  /\ tensorParams = <<>>
  /\ given = <<>>
  /\ heap = EmptyHeap
  /\ held = <<>>
  /\ tensorName = <<>>
  /\ modulePath = <<>>
  /\ maxLayerIndex = 0
  /\ autoIgnore = NothingIgnored
  /\ toggled = NoToggle
  /\ app = AppInit
  /\ paramCountMap = <<>>
  /\ fetches = {}
  /\ pc = "typing"

Type ==
  /\ pc = "typing"
  /\ text' = WriteText(typed)
  /\ pc' = "text"
  /\ UNCHANGED <<allSelectablePaths, selectedPaths, optimized, resolved, typed, weightMap, tree, classified, before, passes, tensorParams, given, heap, held, tensorName, modulePath, maxLayerIndex, autoIgnore, toggled, app, paramCountMap, fetches>>

NextParse == Type \/ Parse

SpecParse == InitParse /\ [][NextParse]_vars


(***************************************************************************)
(* The selection store (useSelectionStore).                                *)
(***************************************************************************)
\* Set.prototype.add / delete on an insertion-ordered set
SetAdd(set, x) == IF Includes(set, x) THEN set ELSE Append(set, x)

SetDelete(set, x) == SelectSeq(set, LAMBDA y : y # x)

RECURSIVE DeleteAll(_, _)
DeleteAll(set, paths) ==
  IF paths = <<>> THEN set ELSE DeleteAll(SetDelete(set, Head(paths)), Tail(paths))

\* p.match(/\.(\d+)\./): the first "." followed by digits and a "."; the
\* record holds the digits
LayerMatch(p) ==
  LET hits == {i \in DOMAIN p :
                 /\ p[i] = DOT
                 /\ \E j \in (i + 1)..(Len(p) - 1) : IsDigits(SubSeq(p, i + 1, j)) /\ p[j + 1] = DOT}
  IN  IF hits = {} THEN NoMatch
      ELSE LET i == CHOOSE h \in hits : \A g \in hits : h <= g
               j == CHOOSE n \in (i + 1)..(Len(p) - 1) : IsDigits(SubSeq(p, i + 1, n)) /\ p[n + 1] = DOT
           IN  [matched |-> TRUE, g1 |-> SubSeq(p, i + 1, j)]

\* the arguments the operations are called with
StoreLayers == 2
MaxArgs == 2

StoreUniverse == [i \in 1..StoreLayers |-> LayerPath(i - 1)] \o <<ExtraPaths[7]>>

\* a path of no universe
Outsider == <<"z", "z">>

StorePaths == Range(StoreUniverse) \cup {Outsider}

StoreUniverses == {Pick(StoreUniverse, keep) : keep \in SUBSET DOMAIN StoreUniverse}

StorePathLists == UNION {[1..n -> StorePaths] : n \in 0..MaxArgs}

NoPattern == <<>>

StorePatterns ==
  { <<"\\",".","0","\\",".">>,   \* /\.0\./
    <<"l","m","|","z","z">> }  \* /lm|zz/

StoreFrame == <<optimized, text, resolved, typed, pc, weightMap, tree, classified, before, passes, tensorParams, given, heap, held, tensorName, modulePath, maxLayerIndex, autoIgnore, toggled, app, paramCountMap, fetches>>

InitStore ==
  /\ allSelectablePaths = <<>>
  /\ selectedPaths = <<>>
  /\ optimized = <<>>
  /\ text = <<>>
  /\ resolved = <<>>
  /\ typed = NothingTyped
  /\ weightMap = <<>>
  /\ tree = <<>>
  /\ classified = NotClassified
  /\ before = <<>>
  /\ passes = <<>>
  /\ tensorParams = <<>>
  /\ given = <<>>
  /\ heap = EmptyHeap
  /\ held = <<>>
  /\ tensorName = <<>>
  /\ modulePath = <<>>
  /\ maxLayerIndex = 0
  /\ autoIgnore = NothingIgnored
  /\ toggled = NoToggle
  /\ app = AppInit
  /\ paramCountMap = <<>>
  /\ fetches = {}
  /\ pc = "store"

setAllSelectablePaths(paths) ==
  /\ allSelectablePaths' = paths
  /\ selectedPaths' = <<>>
  /\ UNCHANGED StoreFrame

setSelectedPaths(paths) ==
  /\ selectedPaths' = AddAll(<<>>, SelectSeq(paths, LAMBDA p : Includes(allSelectablePaths, p)))
  /\ UNCHANGED <<allSelectablePaths, StoreFrame>>

toggle(path) ==
  /\ selectedPaths' = IF Includes(selectedPaths, path) THEN SetDelete(selectedPaths, path)
                      ELSE SetAdd(selectedPaths, path)
  /\ UNCHANGED <<allSelectablePaths, StoreFrame>>

selectPaths(paths) ==
  /\ selectedPaths' = AddAll(selectedPaths, paths)
  /\ UNCHANGED <<allSelectablePaths, StoreFrame>>

deselectPaths(paths) ==
  /\ selectedPaths' = DeleteAll(selectedPaths, paths)
  /\ UNCHANGED <<allSelectablePaths, StoreFrame>>

selectAll ==
  /\ selectedPaths' = AddAll(<<>>, allSelectablePaths)
  /\ UNCHANGED <<allSelectablePaths, StoreFrame>>

deselectAll ==
  /\ selectedPaths' = <<>>
  /\ UNCHANGED <<allSelectablePaths, StoreFrame>>

invertSelection ==
  /\ selectedPaths' = AddAll(<<>>, SelectSeq(allSelectablePaths, LAMBDA p : ~Includes(selectedPaths, p)))
  /\ UNCHANGED <<allSelectablePaths, StoreFrame>>

selectByPattern(pattern) ==
  /\ selectedPaths' = AddAll(selectedPaths, SelectSeq(allSelectablePaths, LAMBDA p : RegexTest(pattern, p)))
  /\ UNCHANGED <<allSelectablePaths, StoreFrame>>

deselectByPattern(pattern) ==
  /\ selectedPaths' = DeleteAll(selectedPaths, SelectSeq(allSelectablePaths, LAMBDA p : RegexTest(pattern, p)))
  /\ UNCHANGED <<allSelectablePaths, StoreFrame>>

InRange(p, startLayer, endLayer, suffixPattern) ==
  LET match == LayerMatch(p)
  IN  /\ match.matched
      /\ parseInt(match.g1) >= startLayer
      /\ parseInt(match.g1) <= endLayer
      /\ (suffixPattern = NoPattern \/ RegexTest(suffixPattern, p))

selectRange(startLayer, endLayer, suffixPattern) ==
  /\ selectedPaths' = AddAll(selectedPaths,
                             SelectSeq(allSelectablePaths, LAMBDA p : InRange(p, startLayer, endLayer, suffixPattern)))
  /\ UNCHANGED <<allSelectablePaths, StoreFrame>>

NextStore ==
  \/ \E paths \in StoreUniverses : setAllSelectablePaths(paths)
  \/ \E paths \in StorePathLists : setSelectedPaths(paths)
  \/ \E path \in StorePaths : toggle(path)
  \/ \E paths \in StorePathLists : selectPaths(paths)
  \/ \E paths \in StorePathLists : deselectPaths(paths)
  \/ selectAll
  \/ deselectAll
  \/ invertSelection
  \/ \E pattern \in StorePatterns : selectByPattern(pattern)
  \/ \E pattern \in StorePatterns : deselectByPattern(pattern)
  \/ \E startLayer, endLayer \in 0..StoreLayers, suffixPattern \in StorePatterns \cup {NoPattern} :
       selectRange(startLayer, endLayer, suffixPattern)

SpecStore == InitStore /\ [][NextStore]_vars

(***************************************************************************)
(* Loading a model: the weight map of the index is parsed into the layer   *)
(* tree (App.handleLoad), and the tree is then passed through the forward  *)
(* pass sort, the parameter estimate and the exact parameter counts, in    *)
(* any order and any number of times.                                      *)
(***************************************************************************)
MaxKeys == 4

\* the tensors a weight map is drawn from: the name, the number of the shard
\* file that holds it and the element count its shard header gives
TensorPool ==
  << [key |-> <<"m","o","d","e","l",".","e","m","b","e","d","_","t","o","k","e","n","s",".","w","e","i","g","h","t">>,
      file |-> 1, count |-> 16],
     [key |-> <<"m","o","d","e","l",".","0",".","q","_","p","r","o","j",".","w","e","i","g","h","t">>,
      file |-> 1, count |-> 4],
     [key |-> <<"m","o","d","e","l",".","0",".","q","_","p","r","o","j",".","b","i","a","s">>,
      file |-> 2, count |-> 2],
     [key |-> <<"m","o","d","e","l",".","1","0",".","m","l","p",".","w","e","i","g","h","t">>,
      file |-> 2, count |-> 8],
     [key |-> <<"m","o","d","e","l",".","1","0",".","m","l","p",".","f","c","1",".","w","e","i","g","h","t">>,
      file |-> 1, count |-> 8],
     [key |-> <<"m","o","d","e","l",".","2",".","n","o","r","m",".","w","e","i","g","h","t">>,
      file |-> 2, count |-> 4],
     [key |-> <<"v","i","s","u","a","l",".","f","c","1",".","w","e","i","g","h","t","_","s","c","a","l","e">>,
      file |-> 1, count |-> 6],
     [key |-> <<"l","m","_","h","e","a","d",".","w","e","i","g","h","t">>,
      file |-> 2, count |-> 16] >>

WeightMaps ==
  {Pick(TensorPool, ks) : ks \in {k \in SUBSET DOMAIN TensorPool : Cardinality(k) <= MaxKeys}}

ShardFiles == {TensorPool[i].file : i \in DOMAIN TensorPool}

\* the result of fetchTensorParamCounts when the shard files in fulfilled
\* are the ones fetched and parsed
TensorParamCounts(index, fulfilled) ==
  LET got == SelectSeq(index, LAMBDA e : e.file \in fulfilled)
  IN  [i \in DOMAIN got |-> [name |-> got[i].key, count |-> got[i].count]]

Configs ==
  {  [hidden_size |-> 4,
      intermediate_size |-> 8,
      vocab_size |-> 16,
      num_attention_heads |-> 2,
      num_key_value_heads |-> 1,
      head_dim |-> undefined,
      linear_num_key_heads |-> undefined,
      linear_key_head_dim |-> undefined,
      linear_num_value_heads |-> undefined,
      linear_value_head_dim |-> undefined,
      text_config |->
        [hidden_size |-> undefined,
         intermediate_size |-> undefined,
         vocab_size |-> undefined,
         num_attention_heads |-> undefined,
         num_key_value_heads |-> undefined,
         head_dim |-> undefined],
      vision_config |->
        [hidden_size |-> undefined,
         intermediate_size |-> undefined,
         num_attention_heads |-> undefined,
         num_heads |-> undefined]],
     [hidden_size |-> undefined,
      intermediate_size |-> undefined,
      vocab_size |-> undefined,
      num_attention_heads |-> undefined,
      num_key_value_heads |-> undefined,
      head_dim |-> undefined,
      linear_num_key_heads |-> undefined,
      linear_key_head_dim |-> undefined,
      linear_num_value_heads |-> undefined,
      linear_value_head_dim |-> undefined,
      text_config |->
        [hidden_size |-> 6,
         intermediate_size |-> 12,
         vocab_size |-> 10,
         num_attention_heads |-> 2,
         num_key_value_heads |-> undefined,
         head_dim |-> undefined],
      vision_config |->
        [hidden_size |-> 2,
         intermediate_size |-> 4,
         num_attention_heads |-> undefined,
         num_heads |-> 1]],
     [hidden_size |-> 4,
      intermediate_size |-> undefined,
      vocab_size |-> 16,
      num_attention_heads |-> undefined,
      num_key_value_heads |-> undefined,
      head_dim |-> undefined,
      linear_num_key_heads |-> undefined,
      linear_key_head_dim |-> undefined,
      linear_num_value_heads |-> undefined,
      linear_value_head_dim |-> undefined,
      text_config |->
        [hidden_size |-> undefined,
         intermediate_size |-> undefined,
         vocab_size |-> undefined,
         num_attention_heads |-> undefined,
         num_key_value_heads |-> undefined,
         head_dim |-> undefined],
      vision_config |->
        [hidden_size |-> undefined,
         intermediate_size |-> undefined,
         num_attention_heads |-> undefined,
         num_heads |-> undefined]] }

InitTree ==
  /\ allSelectablePaths = <<>>
  /\ selectedPaths = <<>>
  /\ optimized = <<>>
  /\ text = <<>>
  /\ resolved = <<>>
  /\ typed = NothingTyped
  /\ weightMap \in WeightMaps
  /\ tree = <<>>
  /\ classified = NotClassified
  /\ before = <<>>
  /\ passes = <<>>
  /\ tensorParams = <<>>
  /\ given = <<>>
  /\ heap = EmptyHeap
  /\ held = <<>>
  /\ tensorName = <<>>
  /\ modulePath = <<>>
  /\ maxLayerIndex = 0
  /\ autoIgnore = NothingIgnored
  /\ toggled = NoToggle
  /\ app = AppInit
  /\ paramCountMap = <<>>
  /\ fetches = {}
  /\ pc = "index"

TreeFrame == <<allSelectablePaths, selectedPaths, optimized, text, resolved, typed, weightMap, classified, before, passes, tensorParams, given, heap, held, tensorName, modulePath, maxLayerIndex, autoIgnore, toggled, app, paramCountMap, fetches>>

ParseWeightMap ==
  /\ pc = "index"
  /\ tree' = parseWeightMap(weightMap)
  /\ pc' = "tree"
  /\ UNCHANGED TreeFrame

SortForwardPass ==
  /\ pc = "tree"
  /\ tree' = sortForwardPass(tree)
  /\ UNCHANGED <<pc, TreeFrame>>

EstimateParamCounts(config) ==
  /\ pc = "tree"
  /\ tree' = estimateParamCounts(config, tree)
  /\ UNCHANGED <<pc, TreeFrame>>

AttachParamCounts(fulfilled) ==
  /\ pc = "tree"
  /\ tree' = attachParamCounts(tree, TensorParamCounts(weightMap, fulfilled))
  /\ UNCHANGED <<pc, TreeFrame>>

NextTree ==
  \/ ParseWeightMap
  \/ SortForwardPass
  \/ \E config \in Configs : EstimateParamCounts(config)
  \/ \E fulfilled \in SUBSET ShardFiles : AttachParamCounts(fulfilled)

SpecTree == InitTree /\ [][NextTree]_vars

(***************************************************************************)
(* Classifying one segment: trieToLayerNodes gives every node the role     *)
(* classifySegment(name, fullPath), the full path ending with the name.    *)
(***************************************************************************)
SegmentPool ==
  { <<"n","o","r","m">>,
    <<"p","o","s","t","_","a","t","t","e","n","t","i","o","n","_","l","a","y","e","r","n","o","r","m">>,
    <<"i","n","p","u","t","_","l","a","y","e","r","n","o","r","m">>,
    <<"a","t","t","n","_","n","o","r","m">>,
    <<"m","l","p","_","n","o","r","m">>,
    <<"q","_","n","o","r","m">>,
    <<"R","M","S","N","o","r","m">>,
    <<"e","m","b","e","d","_","l","a","y","e","r","n","o","r","m">>,
    <<"l","n","_","f">>,
    <<"s","e","l","f","_","a","t","t","n">>,
    <<"a","t","t","e","n","t","i","o","n">>,
    <<"q","_","p","r","o","j">>,
    <<"m","l","p">>,
    <<"c","_","p","r","o","j">>,
    <<"C","_","P","R","O","J">>,
    <<"g","a","t","e","_","p","r","o","j">>,
    <<"u","p","_","p","r","o","j">>,
    <<"d","o","w","n","_","p","r","o","j">>,
    <<"f","c","1">>,
    <<"F","C","1">>,
    <<"f","c","2">>,
    <<"c","_","f","c">>,
    <<"g","a","t","e","_","u","p","_","p","r","o","j">>,
    <<"d","e","n","s","e","_","h","_","t","o","_","4","h">>,
    <<"d","e","n","s","e","_","4","h","_","t","o","_","h">>,
    <<"l","m","_","h","e","a","d">>,
    <<"w","t","e">>,
    <<"e","m","b","e","d","_","t","o","k","e","n","s">>,
    <<"b","l","o","c","k","s">>,
    <<"0">> }

\* what precedes the segment in its full path
ParentPrefixes ==
  { <<"m","o","d","e","l",".","l","a","y","e","r","s",".","0",".">>,
    <<"h",".","0",".","a","t","t","n",".">>,
    <<"h",".","0",".","m","l","p",".">>,
    <<"H",".","0",".","M","L","P",".">>,
    <<"v","i","s","u","a","l",".","b","l","o","c","k","s",".","0",".">>,
    <<"v","i","t",".">> }

InitClassify ==
  /\ allSelectablePaths = <<>>
  /\ selectedPaths = <<>>
  /\ optimized = <<>>
  /\ text = <<>>
  /\ resolved = <<>>
  /\ typed = NothingTyped
  /\ weightMap = <<>>
  /\ tree = <<>>
  /\ \E segment \in SegmentPool, prefix \in ParentPrefixes \cup {<<>>} :
       classified = [segment |-> segment, fullPath |-> prefix \o segment, type |-> ""]
  /\ before = <<>>
  /\ passes = <<>>
  /\ tensorParams = <<>>
  /\ given = <<>>
  /\ heap = EmptyHeap
  /\ held = <<>>
  /\ tensorName = <<>>
  /\ modulePath = <<>>
  /\ maxLayerIndex = 0
  /\ autoIgnore = NothingIgnored
  /\ toggled = NoToggle
  /\ app = AppInit
  /\ paramCountMap = <<>>
  /\ fetches = {}
  /\ pc = "segment"

Classify ==
  /\ pc = "segment"
  /\ classified' = [classified EXCEPT !.type = classifySegment(classified.segment, classified.fullPath)]
  /\ pc' = "classified"
  /\ UNCHANGED <<allSelectablePaths, selectedPaths, optimized, text, resolved, typed, weightMap, tree, before, passes, tensorParams, given, heap, held, tensorName, modulePath, maxLayerIndex, autoIgnore, toggled, app, paramCountMap, fetches>>

NextClassify == Classify

SpecClassify == InitClassify /\ [][NextClassify]_vars

(***************************************************************************)
(* The tree passes on any tree: a tree whose siblings stand in any order   *)
(* is handed to collapseNumberedLayers, sortForwardPass, attachParamCounts *)
(* and estimateParamCounts, each pass taking the tree the one before       *)
(* returned.  The trees are built by trieToLayerNodes from module paths    *)
(* in any order.                                                           *)
(***************************************************************************)
MaxPaths == 2

MaxPasses == 2

ModulePathPool ==
  << <<"h",".","1",".","m","l","p">>,
     <<"h",".","1","0",".","m","l","p">>,
     <<"h",".","2",".","s","e","l","f","_","a","t","t","n">>,
     <<"h",".","0","1",".","m","l","p">>,
     <<"h",".","n","o","r","m">>,
     <<"l","m","_","h","e","a","d">>,
     <<"e","m","b","e","d","_","t","o","k","e","n","s">>,
     <<"h",".","1",".","q","_","p","r","o","j">> >>

ExamplePathLists ==
  { << <<"1","0">>,
       <<"2">>,
       <<"1">>,
       <<"m","l","p">> >>,
    << <<"h",".","0",".","m","l","p">>,
       <<"h",".","0",".","s","e","l","f","_","a","t","t","n">>,
       <<"h",".","0",".","i","n","p","u","t","_","l","a","y","e","r","n","o","r","m">>,
       <<"h",".","0",".","p","o","s","t","_","a","t","t","e","n","t","i","o","n","_","l","a","y","e","r","n","o","r","m">> >>,
    << <<"h",".","1","0",".","m","l","p">>,
       <<"h",".","2",".","k","_","p","r","o","j">>,
       <<"h",".","2",".","q","_","p","r","o","j">>,
       <<"l","m","_","h","e","a","d">>,
       <<"h",".","1",".","m","l","p">>,
       <<"h",".","0","1",".","m","l","p">>,
       <<"h",".","n","o","r","m">>,
       <<"h",".","2",".","m","l","p">>,
       <<"1","0">> >> }

\* the sequences of distinct members of ModulePathPool, MaxPaths long at most
PathLists ==
  LET picks == UNION {[1..n -> DOMAIN ModulePathPool] : n \in 1..MaxPaths}
  IN  {[i \in DOMAIN f |-> ModulePathPool[f[i]]] :
         f \in {g \in picks : \A i, j \in DOMAIN g : g[i] = g[j] => i = j}}

GivenTrees == {trieToLayerNodes(buildTrie(paths)) : paths \in PathLists \cup ExamplePathLists}

\* tensor counts as fetchTensorParamCounts returns them: all shards read,
\* and one shard missing
TensorCountMaps ==
  { << [name |-> <<"h",".","1",".","m","l","p",".","w","e","i","g","h","t">>, count |-> 100],
        [name |-> <<"h",".","1",".","q","_","p","r","o","j",".","w","e","i","g","h","t">>, count |-> 250],
        [name |-> <<"h",".","2",".","s","e","l","f","_","a","t","t","n",".","w","e","i","g","h","t">>, count |-> 8],
        [name |-> <<"h",".","2",".","s","e","l","f","_","a","t","t","n",".","b","i","a","s">>, count |-> 2],
        [name |-> <<"h",".","0",".","m","l","p",".","w","e","i","g","h","t">>, count |-> 100],
        [name |-> <<"h",".","0",".","s","e","l","f","_","a","t","t","n",".","w","e","i","g","h","t">>, count |-> 200],
        [name |-> <<"h",".","0",".","s","e","l","f","_","a","t","t","n",".","b","i","a","s">>, count |-> 50],
        [name |-> <<"h",".","1","0",".","m","l","p",".","w","e","i","g","h","t","_","s","c","a","l","e">>, count |-> 4],
        [name |-> <<"l","m","_","h","e","a","d",".","w","e","i","g","h","t">>, count |-> 16],
        [name |-> <<"1","0",".","w","e","i","g","h","t">>, count |-> 3],
        [name |-> <<"h",".","w","e","i","g","h","t">>, count |-> 5] >>,
    << [name |-> <<"h",".","1",".","m","l","p",".","w","e","i","g","h","t">>, count |-> 100],
        [name |-> <<"h",".","2",".","s","e","l","f","_","a","t","t","n",".","b","i","a","s">>, count |-> 2],
        [name |-> <<"m","l","p",".","w","e","i","g","h","t">>, count |-> 7] >> }

InitPass ==
  /\ allSelectablePaths = <<>>
  /\ selectedPaths = <<>>
  /\ optimized = <<>>
  /\ text = <<>>
  /\ resolved = <<>>
  /\ typed = NothingTyped
  /\ weightMap = <<>>
  /\ classified = NotClassified
  /\ given \in GivenTrees
  /\ tree = given
  /\ before = <<>>
  /\ passes = <<>>
  /\ tensorParams = <<>>
  /\ heap = EmptyHeap
  /\ held = <<>>
  /\ tensorName = <<>>
  /\ modulePath = <<>>
  /\ maxLayerIndex = 0
  /\ autoIgnore = NothingIgnored
  /\ toggled = NoToggle
  /\ app = AppInit
  /\ paramCountMap = <<>>
  /\ fetches = {}
  /\ pc = "pass"

PassFrame == <<allSelectablePaths, selectedPaths, optimized, text, resolved, typed, weightMap,
               classified, pc, given, heap, held, tensorName, modulePath, maxLayerIndex, autoIgnore, toggled, app, paramCountMap, fetches>>

CollapsePass ==
  /\ pc = "pass" /\ Len(passes) < MaxPasses
  /\ tree' = collapseNumberedLayers(tree)
  /\ before' = tree
  /\ passes' = Append(passes, "collapseNumberedLayers")
  /\ UNCHANGED <<tensorParams, PassFrame>>

SortPass ==
  /\ pc = "pass" /\ Len(passes) < MaxPasses
  /\ tree' = sortForwardPass(tree)
  /\ before' = tree
  /\ passes' = Append(passes, "sortForwardPass")
  /\ UNCHANGED <<tensorParams, PassFrame>>

AttachPass(tensorParamCounts) ==
  /\ pc = "pass" /\ Len(passes) < MaxPasses
  /\ tree' = attachParamCounts(tree, tensorParamCounts)
  /\ before' = tree
  /\ passes' = Append(passes, "attachParamCounts")
  /\ tensorParams' = tensorParamCounts
  /\ UNCHANGED PassFrame

EstimatePass(config) ==
  /\ pc = "pass" /\ Len(passes) < MaxPasses
  /\ tree' = estimateParamCounts(config, tree)
  /\ before' = tree
  /\ passes' = Append(passes, "estimateParamCounts")
  /\ UNCHANGED <<tensorParams, PassFrame>>

NextPass ==
  \/ CollapsePass
  \/ SortPass
  \/ \E tensorParamCounts \in TensorCountMaps : AttachPass(tensorParamCounts)
  \/ \E config \in Configs : EstimatePass(config)

SpecPass == InitPass /\ [][NextPass]_vars

(***************************************************************************)
(* SpecStrip: stripWeightSuffix applied to one tensor name.                *)
(***************************************************************************)
MaxTails == 2

ModuleStems ==
  { <<"h",".","0",".","m","l","p">>,
    <<"l","m","_","h","e","a","d">>,
    <<"h",".","w","e","i","g","h","t">>,
    <<>> }

\* what a tensor name can end with: the five suffixes and three endings
\* that only look like one
NameTails ==
  Range(WEIGHT_SUFFIXES) \cup { <<".","w","e","i","g","h","t","s">>, <<"_","s","c","a","l","e">>, <<".","B","i","a","s">> }

TensorNames ==
  {stem \o Flatten(tails) : stem \in ModuleStems,
                            tails \in UNION {[1..n -> NameTails] : n \in 0..MaxTails}}

InitStrip ==
  /\ allSelectablePaths = <<>>
  /\ selectedPaths = <<>>
  /\ optimized = <<>>
  /\ text = <<>>
  /\ resolved = <<>>
  /\ typed = NothingTyped
  /\ weightMap = <<>>
  /\ tree = <<>>
  /\ classified = NotClassified
  /\ before = <<>>
  /\ passes = <<>>
  /\ tensorParams = <<>>
  /\ given = <<>>
  /\ heap = EmptyHeap
  /\ held = <<>>
  /\ tensorName \in TensorNames
  /\ modulePath = <<>>
  /\ maxLayerIndex = 0
  /\ autoIgnore = NothingIgnored
  /\ toggled = NoToggle
  /\ app = AppInit
  /\ paramCountMap = <<>>
  /\ fetches = {}
  /\ pc = "name"

Strip ==
  /\ pc = "name"
  /\ modulePath' = stripWeightSuffix(tensorName)
  /\ pc' = "stripped"
  /\ UNCHANGED <<allSelectablePaths, selectedPaths, optimized, text, resolved, typed, weightMap, tree, classified, before, passes, tensorParams, given, heap, held, tensorName, maxLayerIndex, autoIgnore, toggled, app, paramCountMap, fetches>>

NextStrip == Strip

SpecStrip == InitStrip /\ [][NextStrip]_vars

(***************************************************************************)
(* SpecAuto: the presets of BatchToolbar.  computeAutoIgnore is applied to *)
(* the universe and the deepest layer index at the three stages, in any    *)
(* order.                                                                  *)
(***************************************************************************)
MaxAutoPaths == 3
MaxDepth == 10

\* the deepest layer indices tried: no layer, few layers, and two depths at
\* which layer 5 lies in the middle
Depths == {0, 4, 9, MaxDepth}

AutoPathPool ==
  << <<"l","m","_","h","e","a","d">>,
     <<"m","o","d","e","l",".","n","o","r","m">>,
     <<"m","o","d","e","l",".","l","a","y","e","r","s",".","5",".","m","l","p",".","g","a","t","e">>,
     <<"m","o","d","e","l",".","l","a","y","e","r","s",".","5",".","m","l","p",".","g","a","t","e","_","p","r","o","j">>,
     <<"m","o","d","e","l",".","l","a","y","e","r","s",".","0",".","s","e","l","f","_","a","t","t","n",".","q","_","p","r","o","j">>,
     <<"m","o","d","e","l",".","l","a","y","e","r","s",".","5",".","s","e","l","f","_","a","t","t","n",".","o","_","p","r","o","j">>,
     <<"m","o","d","e","l",".","l","a","y","e","r","s",".","5",".","s","e","l","f","_","a","t","t","n",".","q","_","p","r","o","j">>,
     <<"m","o","d","e","l",".","l","a","y","e","r","s",".","9",".","m","l","p",".","u","p","_","p","r","o","j">>,
     <<"m","o","d","e","l",".","l","a","y","e","r","s",".","4",".","m","l","p",".","s","h","a","r","e","d","_","e","x","p","e","r","t","_","g","a","t","e">>,
     <<"m","o","d","e","l",".","e","m","b","e","d","_","t","o","k","e","n","s">>,
     <<"h",".","3",".","m","l","p",".","f","c","1">>,
     <<"m","o","d","e","l",".","l","a","y","e","r","s",".","3",".","m","l","p",".","e","x","p","e","r","t","s",".","l","a","y","e","r","s",".","9",".","w">> >>

\* path lists in pool order, and each path listed twice
AutoPathLists ==
  {Pick(AutoPathPool, keep) : keep \in {k \in SUBSET DOMAIN AutoPathPool : Cardinality(k) <= MaxAutoPaths}}
    \cup {<<AutoPathPool[i], AutoPathPool[i]>> : i \in DOMAIN AutoPathPool}

InitAuto ==
  /\ allSelectablePaths \in AutoPathLists
  /\ selectedPaths = <<>>
  /\ optimized = <<>>
  /\ text = <<>>
  /\ resolved = <<>>
  /\ typed = NothingTyped
  /\ weightMap = <<>>
  /\ tree = <<>>
  /\ classified = NotClassified
  /\ before = <<>>
  /\ passes = <<>>
  /\ tensorParams = <<>>
  /\ given = <<>>
  /\ heap = EmptyHeap
  /\ held = <<>>
  /\ tensorName = <<>>
  /\ modulePath = <<>>
  /\ maxLayerIndex \in Depths
  /\ autoIgnore = NothingIgnored
  /\ toggled = NoToggle
  /\ app = AppInit
  /\ paramCountMap = <<>>
  /\ fetches = {}
  /\ pc = "auto"

ComputeAutoIgnore(stage) ==
  /\ pc = "auto"
  /\ stage \notin autoIgnore.stages
  /\ autoIgnore' = [stages |-> autoIgnore.stages \cup {stage},
                    result |-> [autoIgnore.result EXCEPT
                                  ![stage] = computeAutoIgnore(allSelectablePaths, maxLayerIndex, stage)]]
  /\ UNCHANGED <<allSelectablePaths, selectedPaths, optimized, text, resolved, typed, pc, weightMap, tree, classified, before, passes, tensorParams, given, heap, held, tensorName, modulePath, maxLayerIndex, toggled, app, paramCountMap, fetches>>

NextAuto == \E stage \in 1..3 : ComputeAutoIgnore(stage)

SpecAuto == InitAuto /\ [][NextAuto]_vars

(***************************************************************************)
(* The checkboxes of the tree (ArchitectureTree).                          *)
(***************************************************************************)
RECURSIVE collectLeafPaths(_)
RECURSIVE LeafPathsOfAll(_)
collectLeafPaths(node) ==
  IF node.isSelectable THEN <<node.fullPath>> ELSE LeafPathsOfAll(node.children)

\* the loop of collectLeafPaths over the children
LeafPathsOfAll(nodes) ==
  IF nodes = <<>> THEN <<>> ELSE collectLeafPaths(Head(nodes)) \o LeafPathsOfAll(Tail(nodes))

\* true, false or indeterminate
getCheckState(node, selected) ==
  IF node.isSelectable THEN (IF Includes(selected, node.fullPath) THEN "true" ELSE "false")
  ELSE LET leafPaths == collectLeafPaths(node)
           selectedCount == Len(SelectSeq(leafPaths, LAMBDA p : Includes(selected, p)))
       IN  IF Len(leafPaths) = 0 THEN "false"
           ELSE IF selectedCount = 0 THEN "false"
           ELSE IF selectedCount = Len(leafPaths) THEN "true"
           ELSE "indeterminate"

\* leafPaths.some in the place of leafPaths.every
EveryLeafSelected_Some(leafPaths, selected) == \E i \in DOMAIN leafPaths : Includes(selected, leafPaths[i])

\* leafPaths.every(p => selectedPaths.has(p))
EveryLeafSelected(leafPaths, selected) == \A i \in DOMAIN leafPaths : Includes(selected, leafPaths[i])

\* the selection handleToggleCheck leaves, by toggle, deselectPaths or selectPaths
ToggleCheck(node, selected) ==
  IF node.isSelectable
    THEN (IF Includes(selected, node.fullPath) THEN SetDelete(selected, node.fullPath)
          ELSE SetAdd(selected, node.fullPath))
  ELSE LET leafPaths == collectLeafPaths(node)
       IN  IF EveryLeafSelected(leafPaths, selected) THEN DeleteAll(selected, leafPaths)
           ELSE AddAll(selected, leafPaths)

(***************************************************************************)
(* SpecCheckbox: one click on the checkbox of a node of the displayed      *)
(* tree, the selection being any part of the universe of the tree.         *)
(***************************************************************************)
InitCheckbox ==
  /\ weightMap \in WeightMaps
  /\ tree \in {parseWeightMap(weightMap), sortForwardPass(parseWeightMap(weightMap))}
  /\ allSelectablePaths = collectSelectablePaths(parseWeightMap(weightMap))
  /\ selectedPaths \in {Pick(allSelectablePaths, keep) : keep \in SUBSET DOMAIN allSelectablePaths}
  /\ optimized = <<>>
  /\ text = <<>>
  /\ resolved = <<>>
  /\ typed = NothingTyped
  /\ classified = NotClassified
  /\ before = <<>>
  /\ passes = <<>>
  /\ tensorParams = <<>>
  /\ given = <<>>
  /\ heap = EmptyHeap
  /\ held = <<>>
  /\ tensorName = <<>>
  /\ modulePath = <<>>
  /\ maxLayerIndex = 0
  /\ autoIgnore = NothingIgnored
  /\ toggled = NoToggle
  /\ app = AppInit
  /\ paramCountMap = <<>>
  /\ fetches = {}
  /\ pc = "check"

HandleToggleCheck(node) ==
  /\ pc = "check"
  /\ selectedPaths' = ToggleCheck(node, selectedPaths)
  /\ toggled' = [node |-> <<node>>, selectedBefore |-> selectedPaths]
  /\ pc' = "toggled"
  /\ UNCHANGED <<allSelectablePaths, optimized, text, resolved, typed, weightMap, tree, classified, before, passes, tensorParams, given, heap, held, tensorName, modulePath, maxLayerIndex, autoIgnore, app, paramCountMap, fetches>>

NextCheckbox == \E node \in NodesOf(tree) : HandleToggleCheck(node)

SpecCheckbox == InitCheckbox /\ [][NextCheckbox]_vars

(***************************************************************************)
(* SpecHeap: the tree passes applied on the heap to trees obtained         *)
(* earlier, every tree obtained being held (as App holds tree, baseTree    *)
(* and displayTree) together with the value it had when it was obtained.   *)
(***************************************************************************)
HeldTrees == {trieToLayerNodes(buildTrie(paths)) : paths \in ExamplePathLists}

InitHeap ==
  /\ allSelectablePaths = <<>>
  /\ selectedPaths = <<>>
  /\ optimized = <<>>
  /\ text = <<>>
  /\ resolved = <<>>
  /\ typed = NothingTyped
  /\ weightMap = <<>>
  /\ tree = <<>>
  /\ classified = NotClassified
  /\ before = <<>>
  /\ passes = <<>>
  /\ tensorParams = <<>>
  /\ given \in HeldTrees
  /\ LET built == Build(EmptyHeap, given, 1, <<>>)
     IN  /\ heap = built.heap
         /\ held = <<[root |-> built.ref, value |-> given, from |-> 0,
                      pass |-> "trieToLayerNodes", arg |-> <<>>]>>
  /\ tensorName = <<>>
  /\ modulePath = <<>>
  /\ maxLayerIndex = 0
  /\ autoIgnore = NothingIgnored
  /\ toggled = NoToggle
  /\ app = AppInit
  /\ paramCountMap = <<>>
  /\ fetches = {}
  /\ pc = "heap"

HeapFrame == <<allSelectablePaths, selectedPaths, optimized, text, resolved, typed, weightMap,
               tree, classified, before, tensorParams, given, pc, tensorName, modulePath, maxLayerIndex, autoIgnore, toggled, app, paramCountMap, fetches>>

\* the tree a pass returned is held from now on
Hold(result, k, pass, arg) ==
  /\ heap' = result.heap
  /\ held' = Append(held, [root |-> result.ref, value |-> Deref(result.heap, result.ref),
                           from |-> k, pass |-> pass, arg |-> arg])
  /\ passes' = Append(passes, pass)
  /\ UNCHANGED HeapFrame

CollapseHeld(k) ==
  /\ pc = "heap" /\ Len(passes) < MaxPasses
  /\ Hold(HeapCollapse(heap, held[k].root), k, "collapseNumberedLayers", <<>>)

SortHeld(k) ==
  /\ pc = "heap" /\ Len(passes) < MaxPasses
  /\ Hold(HeapSort(heap, held[k].root), k, "sortForwardPass", <<>>)

AttachHeld(k, tensorParamCounts) ==
  /\ pc = "heap" /\ Len(passes) < MaxPasses
  /\ Hold(HeapAttach(heap, heap.arrays[held[k].root], 1, <<>>, tensorParamCounts),
          k, "attachParamCounts", tensorParamCounts)

EstimateHeld(k, config) ==
  /\ pc = "heap" /\ Len(passes) < MaxPasses
  /\ Hold(HeapWalk(heap, heap.arrays[held[k].root], 1, <<>>,
                   ResolveTextDims(config), ResolveVisionDims(config)),
          k, "estimateParamCounts", config)

NextHeap ==
  \/ \E k \in DOMAIN held : CollapseHeld(k)
  \/ \E k \in DOMAIN held : SortHeld(k)
  \/ \E k \in DOMAIN held : \E tensorParamCounts \in TensorCountMaps : AttachHeld(k, tensorParamCounts)
  \/ \E k \in DOMAIN held : \E config \in Configs : EstimateHeld(k, config)

SpecHeap == InitHeap /\ [][NextHeap]_vars

(***************************************************************************)
(* SpecLoad: App.  The user loads models from the hub one after another    *)
(* (ModelInput is disabled while a load is in progress), each load awaits  *)
(* the config fetch and the index fetch together and, when it finds an     *)
(* index, starts the tensor-count fetch in the background: that promise    *)
(* settles at any later time, also after later loads.  Between loads the   *)
(* user may toggle the estimate.                                           *)
(***************************************************************************)
MaxLoads == 2

LlamaConfig ==
  [model_type |-> <<"llama">>,
   num_hidden_layers |-> 1,
   full_attention_interval |-> undefined,
   hidden_size |-> 4,
   intermediate_size |-> 8,
   vocab_size |-> 16,
   num_attention_heads |-> 2,
   num_key_value_heads |-> 1,
   head_dim |-> undefined,
   linear_num_key_heads |-> undefined,
   linear_key_head_dim |-> undefined,
   linear_num_value_heads |-> undefined,
   linear_value_head_dim |-> undefined,
   text_config |->
     [model_type |-> <<>>,
      num_hidden_layers |-> undefined,
      hidden_size |-> undefined,
      intermediate_size |-> undefined,
      vocab_size |-> undefined,
      num_attention_heads |-> undefined,
      num_key_value_heads |-> undefined,
      head_dim |-> undefined],
   vision_config |->
     [num_hidden_layers |-> undefined,
      depth |-> undefined,
      hidden_size |-> undefined,
      intermediate_size |-> undefined,
      num_attention_heads |-> undefined,
      num_heads |-> undefined]]

\* a model type no pattern knows, and no num_hidden_layers
UnknownConfig ==
  [model_type |-> <<"bert">>,
   num_hidden_layers |-> undefined,
   full_attention_interval |-> undefined,
   hidden_size |-> 4,
   intermediate_size |-> undefined,
   vocab_size |-> undefined,
   num_attention_heads |-> undefined,
   num_key_value_heads |-> undefined,
   head_dim |-> undefined,
   linear_num_key_heads |-> undefined,
   linear_key_head_dim |-> undefined,
   linear_num_value_heads |-> undefined,
   linear_value_head_dim |-> undefined,
   text_config |->
     [model_type |-> <<>>,
      num_hidden_layers |-> undefined,
      hidden_size |-> undefined,
      intermediate_size |-> undefined,
      vocab_size |-> undefined,
      num_attention_heads |-> undefined,
      num_key_value_heads |-> undefined,
      head_dim |-> undefined],
   vision_config |->
     [num_hidden_layers |-> undefined,
      depth |-> undefined,
      hidden_size |-> undefined,
      intermediate_size |-> undefined,
      num_attention_heads |-> undefined,
      num_heads |-> undefined]]

\* a vision-language model
VLConfig ==
  [model_type |-> <<"qwen2_vl">>,
   num_hidden_layers |-> undefined,
   full_attention_interval |-> undefined,
   hidden_size |-> undefined,
   intermediate_size |-> undefined,
   vocab_size |-> undefined,
   num_attention_heads |-> undefined,
   num_key_value_heads |-> undefined,
   head_dim |-> undefined,
   linear_num_key_heads |-> undefined,
   linear_key_head_dim |-> undefined,
   linear_num_value_heads |-> undefined,
   linear_value_head_dim |-> undefined,
   text_config |->
     [model_type |-> <<>>,
      num_hidden_layers |-> 0,
      hidden_size |-> 6,
      intermediate_size |-> 12,
      vocab_size |-> 10,
      num_attention_heads |-> 2,
      num_key_value_heads |-> undefined,
      head_dim |-> undefined],
   vision_config |->
     [num_hidden_layers |-> undefined,
      depth |-> 0,
      hidden_size |-> 2,
      intermediate_size |-> 4,
      num_attention_heads |-> undefined,
      num_heads |-> 1]]

\* what the hub serves for a model: config is <<>> when config.json is
\* missing, index is <<>> when neither index file exists; an index holds its
\* weight_map as <<>> when the JSON has no weight_map and as <<entries>> else
Hub ==
  [meta_llama |-> [config |-> <<LlamaConfig>>, index |-> <<>>],
   org_sharded |-> [config |-> <<LlamaConfig>>,
                    index |-> <<[weight_map |-> <<Pick(TensorPool, {1, 2, 3, 8})>>]>>],
   org_other |-> [config |-> <<>>,
                  index |-> <<[weight_map |-> <<Pick(TensorPool, {6, 7, 8})>>]>>],
   org_empty |-> [config |-> <<UnknownConfig>>, index |-> <<[weight_map |-> <<<<>>>>]>>],
   org_broken |-> [config |-> <<>>, index |-> <<[weight_map |-> <<>>]>>],
   org_vl |-> [config |-> <<VLConfig>>, index |-> <<>>]]

ModelIds == DOMAIN Hub

\* the promise of fetchTensorParamCounts started by load number load
CountFetch(load, weight_map) ==
  [load |-> load, weight_map |-> weight_map, state |-> "pending", shards |-> {}]

\* setLoading(false): line 83 before the early return, and the finally block
SetLoadingFalse_Never(state) == state

SetLoadingFalse(state) == [state EXCEPT !.loading = FALSE]

\* handleLoad up to the await, s holding app, tree, allSelectablePaths,
\* selectedPaths, paramCountMap and fetches
HandleLoadBegin(s, id) ==
  [s EXCEPT !.app = [s.app EXCEPT !.loading = TRUE, !.error = <<>>, !.baseTree = <<>>,
                                  !.estimated = FALSE, !.config = <<>>, !.modelId = id,
                                  !.loads = @ + 1],
            !.tree = <<>>,
            !.allSelectablePaths = <<>>,
            !.selectedPaths = <<>>]

\* handleLoad from the await on: cfg and index are the values of the two
\* fetches, <<>> for null
HandleLoadSettled(s, cfg, index) ==
  IF cfg = <<>> /\ index = <<>>
    THEN [s EXCEPT !.app = SetLoadingFalse([s.app EXCEPT !.error = <<"not found or has no config.json">>])]
  ELSE
    LET a == IF cfg # <<>> THEN [s.app EXCEPT !.config = cfg] ELSE s.app
    IN  IF index # <<>>
          THEN IF index[1].weight_map = <<>>
                 \* Object.keys(undefined) throws in parseWeightMap
                 THEN [s EXCEPT !.app = SetLoadingFalse([a EXCEPT !.error = <<"Cannot convert undefined or null to object">>])]
                 ELSE LET parsedTree == parseWeightMap(index[1].weight_map[1])
                      IN  [s EXCEPT !.app = SetLoadingFalse([a EXCEPT !.source = "safetensors"]),
                                    !.tree = parsedTree,
                                    !.allSelectablePaths = collectSelectablePaths(parsedTree),
                                    !.selectedPaths = <<>>,
                                    !.fetches = @ \cup {CountFetch(s.app.loads, index[1].weight_map[1])}]
          ELSE LET result == buildTreeFromConfig(cfg[1])
               IN  IF result # <<>>
                     THEN LET estimated == estimateParamCounts(cfg[1], result[1].tree)
                          IN  [s EXCEPT !.app = SetLoadingFalse([a EXCEPT !.baseTree = result[1].tree,
                                                                          !.estimated = TRUE,
                                                                          !.source = "config"]),
                                        !.tree = estimated,
                                        !.allSelectablePaths = result[1].selectablePaths,
                                        !.selectedPaths = <<>>,
                                        !.paramCountMap = collectLeafParamCounts(estimated)]
                     ELSE [s EXCEPT !.app = SetLoadingFalse([a EXCEPT !.error = <<"Could not determine model architecture from config. Unsupported model type.">>])]

\* the .then callback of the count fetch: setTree(prev => ...)
CountsAttached(s, tensorParams_) ==
  LET updated == attachParamCounts(s.tree, tensorParams_)
  IN  [s EXCEPT !.tree = updated, !.paramCountMap = collectLeafParamCounts(updated)]

displayTree(tree_, sortOrder) ==
  IF sortOrder = "forward-pass" THEN sortForwardPass(tree_) ELSE tree_

AppState ==
  [app |-> app, tree |-> tree, allSelectablePaths |-> allSelectablePaths,
   selectedPaths |-> selectedPaths, paramCountMap |-> paramCountMap, fetches |-> fetches]

InitLoad ==
  /\ allSelectablePaths = <<>>
  /\ selectedPaths = <<>>
  /\ optimized = <<>>
  /\ text = <<>>
  /\ resolved = <<>>
  /\ typed = NothingTyped
  /\ weightMap = <<>>
  /\ tree = <<>>
  /\ classified = NotClassified
  /\ before = <<>>
  /\ passes = <<>>
  /\ tensorParams = <<>>
  /\ given = <<>>
  /\ heap = EmptyHeap
  /\ held = <<>>
  /\ tensorName = <<>>
  /\ modulePath = <<>>
  /\ maxLayerIndex = 0
  /\ autoIgnore = NothingIgnored
  /\ toggled = NoToggle
  /\ app = AppInit
  /\ paramCountMap = <<>>
  /\ fetches = {}
  /\ pc = "app"

LoadFrame == <<optimized, text, resolved, typed, pc, weightMap, classified, before, passes, tensorParams, given, heap, held, tensorName, modulePath, maxLayerIndex, autoIgnore, toggled>>

Becomes(s) ==
  /\ app' = s.app
  /\ tree' = s.tree
  /\ allSelectablePaths' = s.allSelectablePaths
  /\ selectedPaths' = s.selectedPaths
  /\ paramCountMap' = s.paramCountMap
  /\ fetches' = s.fetches
  /\ UNCHANGED LoadFrame

HandleLoad(id) ==
  /\ pc = "app"
  /\ ~app.loading
  /\ app.loads < MaxLoads
  /\ LET begun == HandleLoadBegin(AppState, id)
     IN  Becomes([begun EXCEPT !.app = [begun.app EXCEPT !.awaiting = TRUE]])

\* Promise.allSettled has settled: configOk and indexOk tell whether the
\* request for a file the hub has was answered
FetchesSettle(configOk, indexOk) ==
  /\ pc = "app"
  /\ app.awaiting
  /\ LET ended == HandleLoadSettled(AppState,
                                    IF configOk THEN Hub[app.modelId].config ELSE <<>>,
                                    IF indexOk THEN Hub[app.modelId].index ELSE <<>>)
     IN  Becomes([ended EXCEPT !.app = [ended.app EXCEPT !.awaiting = FALSE]])

\* the count fetch p resolves, the headers of the shard files in fulfilled
\* having been read
CountsArrive(p, fulfilled) ==
  /\ pc = "app"
  /\ p \in fetches
  /\ p.state = "pending"
  /\ Becomes([CountsAttached(AppState, TensorParamCounts(p.weight_map, fulfilled)) EXCEPT
                !.fetches = (fetches \ {p}) \cup {[p EXCEPT !.state = "fulfilled", !.shards = fulfilled]}])

\* the count fetch p rejects: .catch(() => {})
CountsFail(p) ==
  /\ pc = "app"
  /\ p \in fetches
  /\ p.state = "pending"
  /\ fetches' = (fetches \ {p}) \cup {[p EXCEPT !.state = "rejected"]}
  /\ UNCHANGED <<app, tree, allSelectablePaths, selectedPaths, paramCountMap, LoadFrame>>

\* the estimate button of ModelSummary, shown for a config-only model
HandleToggleEstimate ==
  /\ pc = "app"
  /\ app.config # <<>>
  /\ app.source = "config"
  /\ LET next == IF app.estimated THEN app.baseTree ELSE estimateParamCounts(app.config[1], app.baseTree)
     IN  /\ tree' = next
         /\ paramCountMap' = collectLeafParamCounts(next)
         /\ app' = [app EXCEPT !.estimated = ~app.estimated]
  /\ UNCHANGED <<allSelectablePaths, selectedPaths, fetches, LoadFrame>>

NextLoad ==
  \/ \E id \in ModelIds : HandleLoad(id)
  \/ \E configOk \in BOOLEAN, indexOk \in BOOLEAN : FetchesSettle(configOk, indexOk)
  \/ \E p \in fetches, fulfilled \in SUBSET ShardFiles : CountsArrive(p, fulfilled)
  \/ \E p \in fetches : CountsFail(p)
  \/ HandleToggleEstimate

SpecLoad == InitLoad /\ [][NextLoad]_vars

\* the two fetches of a load settle: fetch() resolves or rejects, and the
\* continuation of the await is then run
SpecLoadFair == SpecLoad /\ WF_vars(\E configOk \in BOOLEAN, indexOk \in BOOLEAN : FetchesSettle(configOk, indexOk))

(***************************************************************************)
(* Reading the optimizer's output back: the vocabulary of the claims.      *)
(***************************************************************************)
Optimized == pc = "optimized"

CountIn(s, x) == Cardinality({i \in DOMAIN s : s[i] = x})

NoDuplicates(s) == \A i, j \in DOMAIN s : s[i] = s[j] => i = j

HasTemplate(p, t) == LET parsed == toTemplate(p) IN parsed.matched /\ parsed.template = t

PathsOf(paths, t) == SelectSeq(paths, LAMBDA p : HasTemplate(p, t))

TemplatesOf(paths) == {toTemplate(paths[i]).template : i \in {j \in DOMAIN paths : toTemplate(paths[j]).matched}}

TPrefix(t) == SubSeq(t, 1, FirstAt(t, INDEX, 1) - 1)

TSuffix(t) == SubSeq(t, FirstAt(t, INDEX, 1) + 1, Len(t))

RuleHead(t) == RePrefix \o escapeRegex(TPrefix(t))

RuleTail(t) == escapeRegex(TSuffix(t))

\* a re: item built on the prefix and the suffix of template t
IsRuleOf(item, t) ==
  /\ Len(item) >= Len(RuleHead(t)) + Len(RuleTail(t))
  /\ StartsWith(item, RuleHead(t))
  /\ EndsWith(item, RuleTail(t))

RuleMiddle(item, t) == Slice(item, Len(RuleHead(t)) + 1, Len(item) - Len(RuleTail(t)))

WildcardOf(t) == RuleHead(t) \o <<BSL, "d", "+">> \o RuleTail(t)

RulesOf(items, t) == {k \in DOMAIN items : IsRuleOf(items[k], t)}

LiteralsOf(items, t) == {k \in DOMAIN items : HasTemplate(items[k], t)}

HasRe(items) == \E k \in DOMAIN items : StartsWith(items[k], RePrefix)

FullySelected(t) == Len(PathsOf(selectedPaths, t)) = Len(PathsOf(allSelectablePaths, t))

SelectedIndices(t) == [k \in DOMAIN PathsOf(selectedPaths, t) |-> toTemplate(PathsOf(selectedPaths, t)[k]).index]

\* the numbers an alternation "(i1|i2|...)" lists; <<>> when the middle of the
\* rule is not a parenthesised list of decimal numbers
AlternationIndices(mid) ==
  IF Len(mid) < 3 \/ mid[1] # "(" \/ mid[Len(mid)] # ")" THEN <<>>
  ELSE LET parts == Split(SubSeq(mid, 2, Len(mid) - 1), "|")
       IN  IF \A k \in DOMAIN parts : IsDigits(parts[k])
             THEN [k \in DOMAIN parts |-> parseInt(parts[k])]
             ELSE <<>>

\* the positions of the pure-decimal segments of p that lie between a
\* non-empty prefix and a non-empty suffix
InteriorNumeric(p) ==
  LET segs == Split(p, DOT)
  IN  {k \in DOMAIN segs :
         /\ IsDigits(segs[k])
         /\ Path(SubSeq(segs, 1, k - 1)) # <<>>
         /\ Path(SubSeq(segs, k + 1, Len(segs))) # <<>>}

(***************************************************************************)
(* Claims about the optimizer, checked under SpecOpt.                      *)
(***************************************************************************)
\* C1: resolving the formatted optimized rules of a duplicate-free selection
\* of the universe against the same universe gives the selection back, as a
\* set.
C1_RoundTrip ==
  pc = "parsed" => Range(resolved) = Range(selectedPaths)

AllSingleInstance ==
  \A t \in TemplatesOf(allSelectablePaths) : Len(PathsOf(allSelectablePaths, t)) = 1

AllSelected == Range(selectedPaths) = Range(allSelectablePaths)

\* C2 as stated: with one instance per template and every path selected, the
\* optimized output is the selected paths as literals, with no re: item.
C2_AllLiterals ==
  (Optimized /\ AllSingleInstance /\ AllSelected) =>
     /\ Len(optimized) = Len(selectedPaths)
     /\ Range(optimized) = Range(selectedPaths)
     /\ ~HasRe(optimized)

\* C2 amended: with one instance per template and every path selected, the
\* optimized output is the selected paths that match no template, as literals,
\* followed by one index-wildcard rule per selected path that matches one.
C2_LiteralsThenWildcards ==
  (Optimized /\ AllSingleInstance /\ AllSelected) =>
     optimized =
        SelectSeq(selectedPaths, LAMBDA p : ~toTemplate(p).matched)
          \o [k \in DOMAIN SelectSeq(selectedPaths, LAMBDA p : toTemplate(p).matched) |->
                WildcardOf(toTemplate(SelectSeq(selectedPaths, LAMBDA p : toTemplate(p).matched)[k]).template)]

C2_Witness ==
  /\ Optimized
  /\ allSelectablePaths = ExampleUniverse
  /\ AllSingleInstance
  /\ AllSelected

\* C3: a template group whose selected paths are as many as the universe
\* paths of the template contributes exactly one item, the index-wildcard
\* rule, and no literal and no alternation.
C3_FullGroupWildcard ==
  Optimized =>
    \A t \in TemplatesOf(selectedPaths) :
      FullySelected(t) =>
        /\ Cardinality(RulesOf(optimized, t)) = 1
        /\ \A k \in RulesOf(optimized, t) : optimized[k] = WildcardOf(t)
        /\ LiteralsOf(optimized, t) = {}

C3_Witness ==
  /\ Optimized
  /\ \E t \in TemplatesOf(selectedPaths) :
       /\ FullySelected(t)
       /\ Len(PathsOf(selectedPaths, t)) > FewIndices
       /\ optimized = <<WildcardOf(t)>>

\* C4: a template group that is not fully selected and has 3 or fewer
\* selected indices contributes no regex and one literal per selected index,
\* each literal being one of the selected paths of the group.
C4_FewLiterals ==
  Optimized =>
    \A t \in TemplatesOf(selectedPaths) :
      (~FullySelected(t) /\ Len(PathsOf(selectedPaths, t)) <= FewIndices) =>
        /\ RulesOf(optimized, t) = {}
        /\ Cardinality(LiteralsOf(optimized, t)) = Len(PathsOf(selectedPaths, t))
        /\ \A k \in LiteralsOf(optimized, t) : Includes(PathsOf(selectedPaths, t), optimized[k])

\* C5: a template group that is not fully selected and has more than 3
\* selected indices contributes exactly one rule, re:<prefix>(i1|i2|...)<suffix>,
\* whose alternation lists exactly the selected indices in ascending numeric
\* order, contiguous or not, and no literal.
C5_ManyAlternation ==
  Optimized =>
    \A t \in TemplatesOf(selectedPaths) :
      (~FullySelected(t) /\ Len(PathsOf(selectedPaths, t)) > FewIndices) =>
        /\ Cardinality(RulesOf(optimized, t)) = 1
        /\ LiteralsOf(optimized, t) = {}
        /\ \A k \in RulesOf(optimized, t) :
             LET listed == AlternationIndices(RuleMiddle(optimized[k], t))
             IN  /\ Len(listed) = Len(PathsOf(selectedPaths, t))
                 /\ \A i \in DOMAIN listed : i = 1 \/ listed[i - 1] <= listed[i]
                 /\ \A i \in DOMAIN listed : CountIn(listed, listed[i]) = CountIn(SelectedIndices(t), listed[i])

C5_Witness ==
  /\ Optimized
  /\ \E t \in TemplatesOf(selectedPaths) :
       /\ ~FullySelected(t)
       /\ Len(PathsOf(selectedPaths, t)) > FewIndices
       /\ \E i \in DOMAIN SelectedIndices(t) : SelectedIndices(t)[i] >= 10
       /\ SelectedIndices(t)[1] > SelectedIndices(t)[2]

\* C6 as stated: a selected path that does not have exactly one pure-decimal
\* segment between a non-empty prefix and a non-empty suffix appears unchanged
\* as a literal in the optimized output.
C6_NotOneIndexLiteral ==
  Optimized =>
    \A i \in DOMAIN selectedPaths :
      Cardinality(InteriorNumeric(selectedPaths[i])) # 1 =>
        /\ ~toTemplate(selectedPaths[i]).matched
        /\ CountIn(optimized, selectedPaths[i]) = 1

\* C6 amended: a selected path with no pure-decimal segment between a
\* non-empty prefix and a non-empty suffix joins no template group and appears
\* unchanged as a literal; a path with one or more such segments joins the
\* template group of the last of them.
C6_NoIndexLiteral ==
  Optimized =>
    \A i \in DOMAIN selectedPaths :
      LET p == selectedPaths[i]
          segs == Split(p, DOT)
          at == InteriorNumeric(p)
      IN  IF at = {}
            THEN ~toTemplate(p).matched /\ CountIn(optimized, p) = 1
            ELSE LET k == CHOOSE k \in at : \A j \in at : j <= k
                     t == Path(SubSeq(segs, 1, k - 1)) \o <<DOT, INDEX, DOT>>
                            \o Path(SubSeq(segs, k + 1, Len(segs)))
                 IN  /\ toTemplate(p) = [matched |-> TRUE, template |-> t, index |-> parseInt(segs[k])]
                     /\ RulesOf(optimized, t) \cup LiteralsOf(optimized, t) # {}

C6_Witness ==
  /\ Optimized
  /\ \E i \in DOMAIN selectedPaths :
       /\ InteriorNumeric(selectedPaths[i]) = {}
       /\ \E k \in DOMAIN Split(selectedPaths[i], DOT) : IsDigits(Split(selectedPaths[i], DOT)[k])
       /\ CountIn(optimized, selectedPaths[i]) = 1
  /\ \E i \in DOMAIN selectedPaths : Cardinality(InteriorNumeric(selectedPaths[i])) = 1

(***************************************************************************)
(* Claims about the parser, checked under SpecParse.                       *)
(***************************************************************************)
IsInvalidRe(item) == StartsWith(item, RePrefix) /\ ~RegexCompiles(Slice(item, 4, Len(item)))

WithoutInvalid(t) == [t EXCEPT !.items = SelectSeq(t.items, LAMBDA item : ~IsInvalidRe(item))]

HasBracketedList(txt) == \E i, j \in DOMAIN txt : i < j /\ txt[i] = "[" /\ txt[j] = "]"

\* C7: an item whose re: remainder is no valid regular expression adds no
\* path and never fails the resolution: the result is the result for the same
\* list written without the invalid items.
C7_InvalidSkipped ==
  pc = "parsed" => resolved = parseIgnoreItems(WriteText(WithoutInvalid(typed)), allSelectablePaths)

C7_Witness ==
  /\ pc = "parsed"
  /\ typed.style # "bare"
  /\ Len(typed.items) = 3
  /\ IsInvalidRe(typed.items[2])
  /\ ~IsInvalidRe(typed.items[1]) /\ ~IsInvalidRe(typed.items[3])
  /\ ResolveItem(typed.items[1], allSelectablePaths) # <<>>
  /\ ResolveItem(typed.items[3], allSelectablePaths) # <<>>
  /\ Range(ResolveItem(typed.items[3], allSelectablePaths)) \subseteq Range(resolved)
  /\ ~(Range(ResolveItem(typed.items[3], allSelectablePaths)) \subseteq Range(ResolveItem(typed.items[1], allSelectablePaths)))

\* C8: the result holds only members of the universe, holds no path twice,
\* holds a literal item only if the item is a member of the universe, and is
\* empty when the text has no bracketed list.
C8_OnlyUniverseMembers ==
  pc = "parsed" =>
    /\ Range(resolved) \subseteq Range(allSelectablePaths)
    /\ NoDuplicates(resolved)
    /\ \A k \in DOMAIN typed.items :
         (~StartsWith(typed.items[k], RePrefix) /\ Includes(resolved, typed.items[k]))
            => Includes(allSelectablePaths, typed.items[k])
    /\ ~HasBracketedList(text) => resolved = <<>>

C8_Witness ==
  /\ pc = "parsed"
  /\ HasBracketedList(text)
  /\ \E i, j, k \in DOMAIN typed.items :
       /\ ~StartsWith(typed.items[i], RePrefix) /\ ~Includes(allSelectablePaths, typed.items[i])
       /\ ~StartsWith(typed.items[j], RePrefix) /\ Includes(resolved, typed.items[j])
       /\ StartsWith(typed.items[k], RePrefix) /\ RegexCompiles(Slice(typed.items[k], 4, Len(typed.items[k])))
       /\ RegexTest(Slice(typed.items[k], 4, Len(typed.items[k])), typed.items[j])
  /\ Len(resolved) > 1

(***************************************************************************)
(* Claims about the selection store, checked under SpecStore.              *)
(***************************************************************************)
\* C9: after any sequence of store operations, called with any arguments,
\* every member of selectedPaths is a member of allSelectablePaths.
C9_SelectedInUniverse ==
  Range(selectedPaths) \subseteq Range(allSelectablePaths)

(***************************************************************************)
(* The layer tree.                                                         *)
(***************************************************************************)
\* the module paths of a weight map: its tensor names, normalized
ModulePathsOf(index) == {stripWeightSuffix(index[i].key) : i \in DOMAIN index}

\* path is a proper dotted prefix of a module path
IsProperPrefix(path, index) ==
  \E m \in ModulePathsOf(index) : Len(m) > Len(path) /\ StartsWith(m, path \o <<DOT>>)

\* C10: in the tree parseWeightMap makes, and in every tree derived from it
\* by sortForwardPass, attachParamCounts or estimateParamCounts, a node is
\* selectable exactly when it has no children and its fullPath is a module
\* path; a module path that is a proper dotted prefix of another module
\* path is therefore not selectable.
C10_SelectableIsTerminus ==
  pc = "tree" =>
    \A n \in NodesOf(tree) :
      /\ n.isSelectable <=> (Len(n.children) = 0 /\ n.fullPath \in ModulePathsOf(weightMap))
      /\ IsProperPrefix(n.fullPath, weightMap) => ~n.isSelectable

\* a derived tree that holds a module path with children next to a
\* selectable node that carries a parameter count
C10_Witness ==
  /\ pc = "tree"
  /\ \E n \in NodesOf(tree) :
       /\ n.fullPath \in ModulePathsOf(weightMap)
       /\ IsProperPrefix(n.fullPath, weightMap)
       /\ Len(n.children) > 0
       /\ ~n.isSelectable
  /\ \E n \in NodesOf(tree) : n.isSelectable /\ n.paramCount > 0
  /\ tree # parseWeightMap(weightMap)
  /\ tree = sortForwardPass(tree)

(***************************************************************************)
(* Claims about classifySegment, checked under SpecClassify.               *)
(***************************************************************************)
\* the segment is an embedding marker: it holds "embed" or is wte or wpe
IsEmbeddingMarker(segment) ==
  \/ Contains(toLowerCase(segment), <<"e","m","b","e","d">>)
  \/ toLowerCase(segment) \in {<<"w","t","e">>, <<"w","p","e">>}

HasVisionMarker(fullPath) ==
  \E marker \in {<<"v","i","s","i","o","n">>, <<"v","i","s","u","a","l">>, <<"i","m","a","g","e","_","e","n","c","o","d","e","r">>, <<"v","i","t">>, <<"c","l","i","p">>} :
    Contains(toLowerCase(fullPath), marker)

\* C11: a segment that holds "norm" in any letter case and is no embedding
\* marker is classified as norm, whatever attention or MLP marker the segment
\* or its path holds; post_attention_layernorm is norm.
C11_NormBeforeAttention ==
  pc = "classified" =>
    /\ (Contains(toLowerCase(classified.segment), <<"n","o","r","m">>) /\ ~IsEmbeddingMarker(classified.segment))
          => classified.type = "norm"
    /\ classified.segment = <<"p","o","s","t","_","a","t","t","e","n","t","i","o","n","_","l","a","y","e","r","n","o","r","m">> => classified.type = "norm"

\* post_attention_layernorm below an attention block
C11_Witness ==
  /\ pc = "classified"
  /\ classified.segment = <<"p","o","s","t","_","a","t","t","e","n","t","i","o","n","_","l","a","y","e","r","n","o","r","m">>
  /\ Contains(classified.fullPath, <<"h",".","0",".","a","t","t","n",".">>)
  /\ classified.type = "norm"

\* C18: c_proj is mlp exactly when its full path holds "mlp" in any letter
\* case, and is otherwise vision when the path holds a vision marker and group
\* when it holds none; every other MLP alias is mlp whatever its full path.
C18_CProjNeedsMlpPath ==
  pc = "classified" =>
    /\ toLowerCase(classified.segment) = <<"c","_","p","r","o","j">> =>
         /\ classified.type = "mlp" <=> Contains(toLowerCase(classified.fullPath), <<"m","l","p">>)
         /\ ~Contains(toLowerCase(classified.fullPath), <<"m","l","p">>) =>
               classified.type = IF HasVisionMarker(classified.fullPath) THEN "vision" ELSE "group"
    /\ toLowerCase(classified.segment) \in
           { <<"g","a","t","e","_","p","r","o","j">>,
           <<"u","p","_","p","r","o","j">>,
           <<"d","o","w","n","_","p","r","o","j">>,
           <<"f","c","1">>,
           <<"f","c","2">>,
           <<"c","_","f","c">>,
           <<"g","a","t","e","_","u","p","_","p","r","o","j">>,
           <<"d","e","n","s","e","_","h","_","t","o","_","4","h">>,
           <<"d","e","n","s","e","_","4","h","_","t","o","_","h">> }
         => classified.type = "mlp"

\* c_proj below an attention block is a group
C18_Witness ==
  /\ pc = "classified"
  /\ classified.segment = <<"c","_","p","r","o","j">>
  /\ classified.fullPath = <<"h",".","0",".","a","t","t","n",".">> \o <<"c","_","p","r","o","j">>
  /\ classified.type = "group"

(***************************************************************************)
(* Claims about the tree passes, checked under SpecPass.                   *)
(***************************************************************************)
LastPass == IF passes = <<>> THEN "" ELSE passes[Len(passes)]

NamesOf(nodes) == [i \in DOMAIN nodes |-> nodes[i].name]

\* the parents of the sibling lists of a tree: <<>> stands for the top level
ParentsOf(nodes) == {<<>>} \cup {n.fullPath : n \in NodesOf(nodes)}

\* the sibling list below the node whose full path is parent
ChildrenAt(nodes, parent) ==
  IF parent = <<>> THEN nodes
  ELSE LET hits == {n \in NodesOf(nodes) : n.fullPath = parent}
       IN  IF hits = {} THEN <<>> ELSE (CHOOSE n \in hits : TRUE).children

\* C12: after collapseNumberedLayers, as parseWeightMap applies it, every
\* sibling list is the siblings whose names are not pure decimal digits, in
\* the relative order they came in, followed by the pure-digit siblings in
\* ascending order of integer value; 10, 2, 1, mlp become mlp, 1, 2, 10.
C12_DigitsLastAscending ==
  (pc = "pass" /\ LastPass = "collapseNumberedLayers") =>
    /\ \A parent \in ParentsOf(before) \cup ParentsOf(tree) :
         LET in == NamesOf(ChildrenAt(before, parent))
             out == NamesOf(ChildrenAt(tree, parent))
             others == SelectSeq(in, LAMBDA name : ~IsDigits(name))
         IN  /\ Len(out) = Len(in)
             /\ SubSeq(out, 1, Len(others)) = others
             /\ \A i \in (Len(others) + 1)..Len(out) :
                  /\ IsDigits(out[i])
                  /\ CountIn(out, out[i]) = CountIn(in, out[i])
                  /\ i > Len(others) + 1 => parseInt(out[i - 1]) <= parseInt(out[i])
    /\ NamesOf(before) = <<<<"1","0">>,<<"2">>,<<"1">>,<<"m","l","p">>>>
         => NamesOf(tree) = <<<<"m","l","p">>,<<"1">>,<<"2">>,<<"1","0">>>>

C12_Witness ==
  /\ pc = "pass"
  /\ passes = <<"collapseNumberedLayers">>
  /\ NamesOf(before) = <<<<"1","0">>,<<"2">>,<<"1">>,<<"m","l","p">>>>
  /\ NamesOf(tree) = <<<<"m","l","p">>,<<"1">>,<<"2">>,<<"1","0">>>>

\* the position of the node with this full path in a sibling list
PositionIn(nodes, fullPath) == CHOOSE i \in DOMAIN nodes : nodes[i].fullPath = fullPath

\* C13: after sortForwardPass, at every level, the siblings are the given
\* siblings in non-decreasing order of forward-pass priority, siblings of
\* equal priority in the relative order they came in; mlp, self_attn,
\* input_layernorm, post_attention_layernorm become input_layernorm,
\* self_attn, post_attention_layernorm, mlp.
C13_SortedByPriorityStable ==
  (pc = "pass" /\ LastPass = "sortForwardPass") =>
    \A parent \in ParentsOf(before) \cup ParentsOf(tree) :
      LET in == ChildrenAt(before, parent)
          out == ChildrenAt(tree, parent)
      IN  /\ Len(out) = Len(in)
          /\ {n.fullPath : n \in Range(out)} = {n.fullPath : n \in Range(in)}
          /\ \A i, j \in DOMAIN out :
               i < j =>
                 /\ getForwardPassPriority(out[i].name) <= getForwardPassPriority(out[j].name)
                 /\ getForwardPassPriority(out[i].name) = getForwardPassPriority(out[j].name)
                      => PositionIn(in, out[i].fullPath) < PositionIn(in, out[j].fullPath)
          /\ NamesOf(in) = <<<<"m","l","p">>,<<"s","e","l","f","_","a","t","t","n">>,<<"i","n","p","u","t","_","l","a","y","e","r","n","o","r","m">>,<<"p","o","s","t","_","a","t","t","e","n","t","i","o","n","_","l","a","y","e","r","n","o","r","m">>>>
               => NamesOf(out) = <<<<"i","n","p","u","t","_","l","a","y","e","r","n","o","r","m">>,<<"s","e","l","f","_","a","t","t","n">>,<<"p","o","s","t","_","a","t","t","e","n","t","i","o","n","_","l","a","y","e","r","n","o","r","m">>,<<"m","l","p">>>>

\* the example, in the sibling list below a layer
C13_Witness ==
  /\ pc = "pass"
  /\ passes = <<"sortForwardPass">>
  /\ \E parent \in ParentsOf(before) :
       /\ parent # <<>>
       /\ NamesOf(ChildrenAt(before, parent)) = <<<<"m","l","p">>,<<"s","e","l","f","_","a","t","t","n">>,<<"i","n","p","u","t","_","l","a","y","e","r","n","o","r","m">>,<<"p","o","s","t","_","a","t","t","e","n","t","i","o","n","_","l","a","y","e","r","n","o","r","m">>>>
       /\ NamesOf(ChildrenAt(tree, parent)) = <<<<"i","n","p","u","t","_","l","a","y","e","r","n","o","r","m">>,<<"s","e","l","f","_","a","t","t","n">>,<<"p","o","s","t","_","a","t","t","e","n","t","i","o","n","_","l","a","y","e","r","n","o","r","m">>,<<"m","l","p">>>>

\* C14: sorting a sorted tree changes nothing: the second of two successive
\* sortForwardPass returns the tree it was given, node for node and in the
\* same sibling order.
C14_SortIdempotent ==
  (pc = "pass" /\ Len(passes) >= 2 /\ LastPass = "sortForwardPass"
     /\ passes[Len(passes) - 1] = "sortForwardPass") => tree = before

\* a tree that the first sort reordered, with siblings of equal priority,
\* sorted twice
C14_Witness ==
  /\ pc = "pass"
  /\ passes = <<"sortForwardPass", "sortForwardPass">>
  /\ before # given
  /\ \E parent \in ParentsOf(given) :
       \E i, j \in DOMAIN ChildrenAt(given, parent) :
         /\ i # j
         /\ getForwardPassPriority(ChildrenAt(given, parent)[i].name)
              = getForwardPassPriority(ChildrenAt(given, parent)[j].name)
  /\ tree = before

\* the sum of the counts of the tensors whose names normalize to path
RECURSIVE TensorTotal(_, _)
TensorTotal(counts, path) ==
  IF counts = <<>> THEN 0
  ELSE (IF stripWeightSuffix(Head(counts).name) = path THEN Head(counts).count ELSE 0)
       + TensorTotal(Tail(counts), path)

RECURSIVE CountTotal(_)
CountTotal(nodes) ==
  IF nodes = <<>> THEN 0 ELSE Head(nodes).paramCount + CountTotal(Tail(nodes))

\* C15: after attachParamCounts, the count of a node without children is the
\* sum of the counts of the tensors whose names normalize to its full path, 0
\* when there is none, and the count of a node with children is the sum of
\* the counts of its children.
C15_CountsAggregate ==
  (pc = "pass" /\ LastPass = "attachParamCounts") =>
    \A n \in NodesOf(tree) :
      /\ n.paramCount # undefined
      /\ n.paramCount = IF Len(n.children) = 0 THEN TensorTotal(tensorParams, n.fullPath)
                                             ELSE CountTotal(n.children)

\* a container of 350 over children of 100 and of 250, the 250 being the sum
\* of two tensors of one module, next to a leaf that no tensor names
C15_Witness ==
  /\ pc = "pass"
  /\ LastPass = "attachParamCounts"
  /\ \E n \in NodesOf(tree) :
       /\ n.paramCount = 350
       /\ \E i, j, k \in DOMAIN n.children :
            /\ n.children[i].paramCount = 100
            /\ n.children[j].paramCount = 250
            /\ Cardinality({t \in DOMAIN tensorParams :
                   stripWeightSuffix(tensorParams[t].name) = n.children[j].fullPath}) = 2
            /\ n.children[k].paramCount = 0
            /\ Len(n.children[k].children) = 0
            /\ \A t \in DOMAIN tensorParams :
                 stripWeightSuffix(tensorParams[t].name) # n.children[k].fullPath

\* the nodes of a tree below parent, each with its own fields, its parent and
\* the set of its children, the order of the siblings left out
RECURSIVE Members(_, _)
Members(nodes, parent) ==
  IF nodes = <<>> THEN {}
  ELSE LET n == Head(nodes)
       IN  {[id |-> n.id, name |-> n.name, fullPath |-> n.fullPath, type |-> n.type,
             isSelectable |-> n.isSelectable, paramCount |-> n.paramCount,
             parent |-> parent,
             children |-> {n.children[i].fullPath : i \in DOMAIN n.children}]}
           \cup Members(n.children, n.fullPath)
           \cup Members(Tail(nodes), parent)

RECURSIVE NodeCount(_)
NodeCount(nodes) ==
  IF nodes = <<>> THEN 0
  ELSE 1 + NodeCount(Head(nodes).children) + NodeCount(Tail(nodes))

\* C19: collapseNumberedLayers and sortForwardPass only permute sibling
\* lists: the tree they return has the nodes of the tree they were given,
\* each with the same id, name, full path, role, selectable flag and count,
\* under the same parent and with the same set of children.
C19_PassesOnlyPermute ==
  (pc = "pass" /\ LastPass \in {"collapseNumberedLayers", "sortForwardPass"}) =>
    /\ Members(tree, <<>>) = Members(before, <<>>)
    /\ NodeCount(tree) = NodeCount(before)

\* a pass that did reorder a tree whose nodes carry counts
C19_Witness ==
  /\ pc = "pass"
  /\ LastPass \in {"collapseNumberedLayers", "sortForwardPass"}
  /\ tree # before
  /\ \E n \in NodesOf(before) : n.paramCount # undefined /\ n.paramCount > 0

\* every node of nodes has the full path made of the full path of its parent,
\* a dot and its name, or just its name at the top level
RECURSIVE PathsFollowNames(_, _, _)
PathsFollowNames(nodes, top, parentPath) ==
  \A i \in DOMAIN nodes :
    /\ nodes[i].fullPath = IF top THEN nodes[i].name
                            ELSE parentPath \o <<DOT>> \o nodes[i].name
    /\ PathsFollowNames(nodes[i].children, FALSE, nodes[i].fullPath)

\* the dotted prefixes of a module path, the path itself included
DottedPrefixes(path) ==
  {SubSeq(path, 1, k) : k \in {j \in 1..Len(path) : j = Len(path) \/ path[j + 1] = DOT}}

\* C20: in the tree parseWeightMap makes, the full path of a node is the
\* full path of its parent, a dot and its name (its name alone at the top
\* level), no two nodes share a full path, and the module paths that share a
\* dotted prefix share the one node of that prefix.
C20_OneNodePerPrefix ==
  pc = "tree" =>
    /\ PathsFollowNames(tree, TRUE, <<>>)
    /\ NodeCount(tree) = Cardinality({n.fullPath : n \in NodesOf(tree)})
    /\ {n.fullPath : n \in NodesOf(tree)}
         = UNION {DottedPrefixes(m) : m \in ModulePathsOf(weightMap)}

\* three module paths below one two-segment prefix, one of them a prefix of
\* another
C20_Witness ==
  /\ pc = "tree"
  /\ \E n \in NodesOf(tree) :
       /\ Len(Split(n.fullPath, DOT)) = 2
       /\ Cardinality({m \in ModulePathsOf(weightMap) : n.fullPath \in DottedPrefixes(m)}) >= 2
       /\ \E c \in NodesOf(n.children) : Len(Split(c.fullPath, DOT)) = 4
  /\ \E n \in NodesOf(tree) : Len(n.children) >= 2

\* C17: every re: rule that optimizeSelection emits for a template group,
\* resolved by parseIgnoreItems against the same universe, matches exactly
\* the selected paths of that group, and so no universe path of another
\* template or of no template.
C17_RuleMatchesItsGroup ==
  pc # "selected" =>
    \A t \in TemplatesOf(selectedPaths) :
      \A k \in RulesOf(optimized, t) :
        Range(ResolveItem(optimized[k], allSelectablePaths)) = Range(PathsOf(selectedPaths, t))

\* the pass of the heap returned the tree the pass on values returns
HeapAgreesWithValues ==
  pc = "heap" =>
    \A k \in DOMAIN held :
      held[k].from # 0 =>
        LET input == held[held[k].from].value
        IN  held[k].value =
              IF held[k].pass = "collapseNumberedLayers" THEN collapseNumberedLayers(input)
              ELSE IF held[k].pass = "sortForwardPass" THEN sortForwardPass(input)
              ELSE IF held[k].pass = "attachParamCounts" THEN attachParamCounts(input, held[k].arg)
              ELSE estimateParamCounts(held[k].arg, input)

\* the node objects a tree reaches
RECURSIVE ObjectRefs(_, _)
ObjectRefs(h, nodes) ==
  {h.arrays[nodes][i] : i \in DOMAIN h.arrays[nodes]}
    \cup UNION {ObjectRefs(h, h.objects[h.arrays[nodes][i]].children) : i \in DOMAIN h.arrays[nodes]}

\* C16: collapseNumberedLayers, sortForwardPass, attachParamCounts and
\* estimateParamCounts leave the tree they are given as it was: after any
\* sequence of these passes, every tree obtained earlier still has the
\* nodes, the sibling order and the counts it had when it was obtained.
C16_HeldTreesKeepTheirValue ==
  pc = "heap" => \A k \in DOMAIN held : Deref(heap, held[k].root) = held[k].value

\* two passes done, a sort among them, the three trees held all different,
\* and two of them reaching one and the same node object
C16_Witness ==
  /\ pc = "heap"
  /\ Len(held) >= 3
  /\ \E k \in DOMAIN held : held[k].pass = "sortForwardPass"
  /\ \A k, l \in DOMAIN held : k # l => held[k].value # held[l].value
  /\ \E k, l \in DOMAIN held :
       /\ k # l
       /\ ObjectRefs(heap, held[k].root) \cap ObjectRefs(heap, held[l].root) # {}

\* the suffixes a name ends with, by their positions in WEIGHT_SUFFIXES
SuffixesEnding(name) == {k \in DOMAIN WEIGHT_SUFFIXES : EndsWith(name, WEIGHT_SUFFIXES[k])}

\* C21: stripWeightSuffix removes exactly one suffix, the first of .weight,
\* .bias, .scales, .zero_point, .weight_scale that the name ends with, and
\* returns a name that ends with none of them as it is; a suffix the result
\* still ends with stays, and the names made of one module path and any of
\* the suffixes all give that module path.
C21_OneSuffixRemoved ==
  pc = "stripped" =>
    /\ IF SuffixesEnding(tensorName) = {} THEN modulePath = tensorName
       ELSE LET k == CHOOSE i \in SuffixesEnding(tensorName) :
                       \A j \in SuffixesEnding(tensorName) : i <= j
            IN  tensorName = modulePath \o WEIGHT_SUFFIXES[k]
    /\ \A k \in DOMAIN WEIGHT_SUFFIXES :
         stripWeightSuffix(modulePath \o WEIGHT_SUFFIXES[k]) = modulePath

\* a name that ended with two suffixes in a row: the result ends with one
C21_Witness ==
  /\ pc = "stripped"
  /\ SuffixesEnding(tensorName) # {}
  /\ SuffixesEnding(modulePath) # {}
  /\ modulePath # tensorName

\* C27: for a duplicate-free selection of the universe, the optimized rule
\* list has at most as many items as the selection, and it is empty exactly
\* when the selection is empty.
C27_NeverLonger ==
  pc # "selected" =>
    /\ Len(optimized) <= Len(selectedPaths)
    /\ optimized = <<>> <=> selectedPaths = <<>>

\* a selection that came out shorter, as a rule next to a literal
C27_Witness ==
  /\ pc = "optimized"
  /\ Len(optimized) < Len(selectedPaths)
  /\ HasRe(optimized)
  /\ \E k \in DOMAIN optimized : ~StartsWith(optimized[k], RePrefix)

RECURSIVE TotalOf(_)
TotalOf(counts) == IF counts = <<>> THEN 0 ELSE Head(counts).count + TotalOf(Tail(counts))

\* the tensor counts of every shard of the weight map
AllTensorCounts == TensorParamCounts(weightMap, ShardFiles)

\* C28: attachParamCounts applied to the tree parseWeightMap makes of a
\* weight map, with the counts of exactly the tensors of that weight map,
\* gives top-level counts that add up to the sum of all the counts; no
\* count is lost, the tensors of a module that has sub-modules included.
C28_NoCountLost ==
  (pc = "tree" /\ tree = attachParamCounts(parseWeightMap(weightMap), AllTensorCounts)) =>
    CountTotal(tree) = TotalOf(AllTensorCounts)

\* sub is made of elements of s taken in order, each position at most once
IsSubsequence(sub, s) ==
  \E keep \in SUBSET DOMAIN s : sub = Pick(s, keep)

\* C30: for every path list and every maxLayerIndex, the result of
\* computeAutoIgnore at stage 1 is within its result at stage 2, that one
\* within its result at stage 3, and that one within the input paths; a
\* result takes each input path at most once.
C30_PresetsNested ==
  (pc = "auto" /\ autoIgnore.stages = {1, 2, 3}) =>
    /\ Range(autoIgnore.result[1]) \subseteq Range(autoIgnore.result[2])
    /\ Range(autoIgnore.result[2]) \subseteq Range(autoIgnore.result[3])
    /\ Range(autoIgnore.result[3]) \subseteq Range(allSelectablePaths)
    /\ \A stage \in 1..3 : IsSubsequence(autoIgnore.result[stage], allSelectablePaths)
    /\ IsSubsequence(autoIgnore.result[1], autoIgnore.result[2])
    /\ IsSubsequence(autoIgnore.result[2], autoIgnore.result[3])

\* the three stages differ, and stage 3 leaves a path out
C30_Witness ==
  /\ pc = "auto"
  /\ autoIgnore.stages = {1, 2, 3}
  /\ Len(autoIgnore.result[1]) < Len(autoIgnore.result[2])
  /\ Len(autoIgnore.result[2]) < Len(autoIgnore.result[3])
  /\ Len(autoIgnore.result[3]) < Len(allSelectablePaths)

\* the selectable nodes below a node, by their full paths
SelectableBelow(node) == {n.fullPath : n \in {d \in NodesOf(node.children) : d.isSelectable}}

\* C29: toggling the checkbox of a non-selectable node that has a
\* selectable descendant selects all its selectable descendants when not all
\* of them were selected and deselects them all when all were; its check
\* state is then true, respectively false, never indeterminate, and the
\* paths outside its subtree are selected exactly when they were.
C29_GroupToggle ==
  (pc = "toggled" /\ ~toggled.node[1].isSelectable /\ SelectableBelow(toggled.node[1]) # {}) =>
    LET node == toggled.node[1]
        below == SelectableBelow(node)
        was == Range(toggled.selectedBefore)
        now == Range(selectedPaths)
    IN  /\ IF below \subseteq was
             THEN now \cap below = {} /\ getCheckState(node, selectedPaths) = "false"
             ELSE below \subseteq now /\ getCheckState(node, selectedPaths) = "true"
        /\ now \ below = was \ below

\* a group that was indeterminate, toggled while a path outside it was selected
C29_Witness ==
  /\ pc = "toggled"
  /\ ~toggled.node[1].isSelectable
  /\ getCheckState(toggled.node[1], toggled.selectedBefore) = "indeterminate"
  /\ Range(toggled.selectedBefore) \ SelectableBelow(toggled.node[1]) # {}
  /\ Len(toggled.node[1].children) >= 1

(***************************************************************************)
(* Claims about App, checked under SpecLoad and SpecLoadFair.              *)
(***************************************************************************)
\* the keys of a map kept as the sequence of its entries
MapKeys(map) == {map[i].path : i \in DOMAIN map}

\* C24: in every reachable state of the application every key of
\* paramCountMap is a member of allSelectablePaths; starting a new load
\* leaves no count entry of the model loaded before.
C24_CountsWithinUniverse ==
  pc = "app" => MapKeys(paramCountMap) \subseteq Range(allSelectablePaths)

\* C26: when a handleLoad invocation has finished (loading is false again),
\* an error message is set or the tree is not empty.
C26_ErrorOrTree ==
  (pc = "app" /\ app.loads >= 1 /\ ~app.loading) => (app.error # <<>> \/ tree # <<>>)

\* C25: every handleLoad invocation eventually sets loading back to false,
\* whatever the outcome of the config fetch and of the index fetch (checked
\* under SpecLoadFair, where the two fetches of a load do settle).
C25_LoadingEnds == (pc = "app" /\ app.loading) ~> ~app.loading

\* a load has ended through the exception thrown while the tree was built
C25_Witness ==
  /\ pc = "app"
  /\ app.loads >= 1
  /\ ~app.loading
  /\ app.error = <<"Cannot convert undefined or null to object">>

\* the count fetch p, started by a load that is no longer the last one,
\* settles in this step
SettlesLate(p) == p.state = "pending" /\ p.load < app.loads /\ p \notin fetches'

\* C23: a count fetch only attaches counts to the tree of the load that
\* started it: once a later load has begun, the settling of an earlier load's
\* count fetch changes neither the displayed tree, in either sort order, nor
\* paramCountMap.
C23_LateCountsIgnored ==
  [][\A p \in fetches :
       SettlesLate(p) =>
         /\ \A sortOrder \in {"weight-file", "forward-pass"} :
              displayTree(tree', sortOrder) = displayTree(tree, sortOrder)
         /\ paramCountMap' = paramCountMap]_vars

\* a tree with the counts of its nodes taken away
RECURSIVE WithoutCounts(_)
WithoutCounts(nodes) ==
  [i \in DOMAIN nodes |->
     [nodes[i] EXCEPT !.paramCount = undefined, !.children = WithoutCounts(@)]]

\* the sum of the element counts of the tensors of a weight map that lie in
\* the shard files shards and whose names normalize to path
RECURSIVE ShardTotal(_, _, _)
ShardTotal(weight_map, shards, path) ==
  IF weight_map = <<>> THEN 0
  ELSE (IF Head(weight_map).file \in shards /\ stripWeightSuffix(Head(weight_map).key) = path
          THEN Head(weight_map).count ELSE 0)
       + ShardTotal(Tail(weight_map), shards, path)

\* the count fetches of the last load, once that load has found an index
OwnFetches == {p \in fetches : pc = "app" /\ ~app.awaiting /\ p.load = app.loads}

\* C22: when a load finds a weight index, the tree and the universe are set
\* without waiting for the count fetch, the error is not set and the tree is
\* not cleared, whatever becomes of the fetch; when the fetch resolves, for
\* some shards or for none, the leaves get the counts of the shards that were
\* read and 0 where none was, and when it rejects the tree stays as it is.
C22_CountsAreOptional ==
  /\ [](\A p \in OwnFetches :
          /\ ~app.loading
          /\ app.error = <<>>
          /\ allSelectablePaths = collectSelectablePaths(parseWeightMap(p.weight_map))
          /\ WithoutCounts(tree) = parseWeightMap(p.weight_map))
  /\ [][\A p \in OwnFetches :
          (p.state = "pending" /\ p \notin fetches') =>
            \E q \in fetches' \ fetches :
              /\ q.state = "rejected" => tree' = tree
              /\ q.state = "fulfilled" =>
                   \A n \in NodesOf(tree') :
                     /\ n.children = <<>> => n.paramCount = ShardTotal(p.weight_map, q.shards, n.fullPath)
                     /\ q.shards = {} => n.paramCount = 0]_vars

\* the counts of one shard out of two have arrived: a module with a tensor in
\* each shard has the count of the one that was read, a leaf of the failed
\* shard has 0
C22_Witness ==
  \E p \in OwnFetches :
    /\ p.state = "fulfilled"
    /\ p.shards # {} /\ p.shards # ShardFiles
    /\ \E n \in NodesOf(tree) : n.children = <<>> /\ n.paramCount = 0
    /\ \E n \in NodesOf(tree) :
         /\ n.children = <<>>
         /\ n.paramCount > 0
         /\ n.paramCount < ShardTotal(p.weight_map, ShardFiles, n.fullPath)

=============================================================================
